---- MODULE Spec2Model ----
(***************************************************************************)
(* A model of the godot-whisper audio pipeline: the Opus codec framer      *)
(* (src/src/codec.rs), the capture callback (src/src/microphone.rs), the   *)
(* voice-activity worker (src/src/whisper.rs), the owning node             *)
(* (src/src/whisper_node.rs) and the runtime flag (src/src/runtime.rs).    *)
(*                                                                         *)
(* External collaborators (the opus2 encoder/decoder, the transcription    *)
(* engine, the audio device) are black boxes: every result they hand back  *)
(* is an input, drawn from the set of results their interface allows.      *)
(***************************************************************************)
EXTENDS Integers, Sequences, FiniteSets, TLC

VARIABLES
    \* The codec entry points (codec.rs), evaluated on their own.
    codec_call,       \* the codec entry point under evaluation and its arguments
    codec_ret,        \* what that call returned
    \* The node (whisper_node.rs), its microphone (microphone.rs) and the runtime flag.
    config,           \* the device's StreamConfig: channels and sample_rate
    keywords,         \* Whisper.keywords: Vec<String>
    spellbook,        \* Whisper.spellbook: HashMap<String, String>
    whisper_thread,   \* Whisper.whisper_thread: Option<JoinHandle<()>>
    sender,           \* Whisper.sender: Option<Sender<Vec<u8>>>
    stream,           \* Microphone.stream: Option<Stream>
    running,          \* the AtomicBool of Runtime
    freed,            \* Runtime::free() has been called
    node_panic,       \* a method of the node panicked
    start_error,      \* init_whisper reported the error of Microphone::start
    \* The capture callback's closure.
    local_buffer,     \* samples resampled to 48 kHz and not yet framed
    cb_state,         \* "ok", or "panicked" once the callback unwound
    callbacks,        \* invocations of the callback so far
    resampled_total,  \* samples the stereo resampler produced so far
    encoder,          \* the settings of the callback's opus encoder
    \* The two channels.
    mono_chan,        \* blocks in flight from the callback to the worker
    tx_alive,         \* a Sender<Vec<f32>> of the mono channel is alive
    relay_chan,       \* messages in flight from the callback to process()
    \* The worker thread (WhisperKeywordSpotter::start).
    wpc,              \* where the worker is
    wkeywords,        \* the keywords the worker was started with
    buffer,           \* the voice buffer
    silence_samples,  \* the silence counter
    detection,        \* the detection the worker is about to publish
    \* The Match Slot.
    matches,          \* Arc<Mutex<Option<String>>>: the value
    lock,             \* who holds the mutex
    \* What happened so far.
    relay_sent,       \* first sample of the frame of every message sent to the relay
    speak_emitted,    \* the same of every message emitted through speak
    mono_sent,        \* number of every block sent to the worker
    mono_received,    \* the same of every block the worker received
    slot_log,         \* publishes into and takes from the Match Slot
    cast_emitted,     \* detections emitted through cast
    detect_log,       \* for each detect call: samples and silence of the buffer passed
    fed_all_silent    \* every block received so far was silent as a whole

codec_vars == <<codec_call, codec_ret>>

node_vars == <<config, keywords, spellbook, whisper_thread, sender, stream, running, freed,
               node_panic, start_error>>

capture_vars == <<local_buffer, cb_state, callbacks, resampled_total, encoder>>

chan_vars == <<mono_chan, tx_alive, relay_chan>>

worker_vars == <<wpc, wkeywords, buffer, silence_samples, detection>>

slot_vars == <<matches, lock>>

log_vars == <<relay_sent, speak_emitted, mono_sent, mono_received, slot_log,
              cast_emitted, detect_log, fed_all_silent>>

pipe_vars == <<node_vars, capture_vars, chan_vars, worker_vars, slot_vars, log_vars>>

vars == <<codec_vars, pipe_vars>>

(***************************************************************************)
(* Bounds of the model.                                                    *)
(***************************************************************************)
MaxFrames == 2      \* whole frames in an encoder input
MaxBytes == 5       \* bytes in an arbitrary framed stream
MaxPackets == 2     \* packets in an arbitrary packet list

(***************************************************************************)
(* Small helpers on sequences.                                             *)
(***************************************************************************)
Repeat(n, v) == [i \in 1..n |-> v]

Min(a, b) == IF a < b THEN a ELSE b

Contains(vec, x) == \E i \in 1..Len(vec) : vec[i] = x

RECURSIVE Flatten(_)
Flatten(ss) == IF ss = <<>> THEN <<>> ELSE Head(ss) \o Flatten(Tail(ss))

RECURSIVE SeqsUpTo(_, _)
SeqsUpTo(S, n) ==
    IF n = 0 THEN {<<>>}
    ELSE LET shorter == SeqsUpTo(S, n - 1)
         IN  shorter \cup {Append(s, x) : s \in {t \in shorter : Len(t) = n - 1}, x \in S}

(***************************************************************************)
(* codec.rs: validation.                                                   *)
(***************************************************************************)
\* get_valid_frame_sizes with the 60 ms size of 24 kHz mistyped as that of 48 kHz's 40 ms.
get_valid_frame_sizes_typo(sample_rate) ==
    CASE sample_rate = 48000 -> <<120, 240, 480, 960, 1920, 2880>>
      [] sample_rate = 24000 -> <<60, 120, 240, 480, 960, 1920>>
      [] sample_rate = 16000 -> <<40, 80, 160, 320, 640, 960>>
      [] sample_rate = 12000 -> <<30, 60, 120, 240, 480, 720>>
      [] sample_rate = 8000  -> <<20, 40, 80, 160, 320, 480>>
      [] OTHER               -> <<>>

\* get_valid_frame_sizes: the Vec the match returns for each sample rate.
get_valid_frame_sizes(sample_rate) ==
    CASE sample_rate = 48000 -> <<120, 240, 480, 960, 1920, 2880>>
      [] sample_rate = 24000 -> <<60, 120, 240, 480, 960, 1440>>
      [] sample_rate = 16000 -> <<40, 80, 160, 320, 640, 960>>
      [] sample_rate = 12000 -> <<30, 60, 120, 240, 480, 720>>
      [] sample_rate = 8000  -> <<20, 40, 80, 160, 320, 480>>
      [] OTHER               -> <<>>

\* The rates of the matches! pattern of validate_input.
SupportedRates == {8000, 12000, 16000, 24000, 48000}

\* validate_input: "Ok", or the message of the first check that fails.
validate_input(stereo_len, sample_rate, frame_size) ==
    IF sample_rate \notin SupportedRates
    THEN "Invalid sample rate"
    ELSE IF ~Contains(get_valid_frame_sizes(sample_rate), frame_size)
    THEN "Invalid frame size"
    ELSE IF stereo_len % 2 # 0
    THEN "Stereo input must be interleaved"
    ELSE "Ok"

(***************************************************************************)
(* codec.rs: the byte-level framing.                                       *)
(***************************************************************************)
\* vec![0u8; 4000]: the buffer encode_float writes a packet into.
EncodedBufLen == 4000

\* The length prefix cut to one byte (encoded_len as u8).
u16_to_le_bytes_as_u8(encoded_len) == <<encoded_len % 256, 0>>

\* (encoded_len as u16).to_le_bytes()
u16_to_le_bytes(encoded_len) ==
    LET v == encoded_len % 65536 IN <<v % 256, v \div 256>>

\* u16::from_le_bytes([b0, b1]) as usize
u16_from_le_bytes(b0, b1) == b0 + 256 * b1

(***************************************************************************)
(* The encoder, a black box.  An encoder oracle is the sequence of results *)
(* of the successive encode_float calls of one encode: each is an error or *)
(* the packet written (1..4000 bytes).  A buffer of n samples is the       *)
(* sequence <<1, ..., n>>: a sample is named by its place in the input.    *)
(***************************************************************************)
EncErr == [ok |-> FALSE, bytes |-> <<>>]
EncOk(bytes) == [ok |-> TRUE, bytes |-> bytes]

Stereo(n) == [i \in 1..n |-> i]

\* What was handed to encode_float: the slice's first and last sample and its length.
FrameTag(frame) ==
    [first |-> IF frame = <<>> THEN 0 ELSE frame[1],
     last  |-> IF frame = <<>> THEN 0 ELSE frame[Len(frame)],
     n     |-> Len(frame)]

\* The for loop of encode_stereo_to_opus with the offset counted in frames per
\* channel instead of interleaved samples: successive slices overlap.
RECURSIVE encode_frames_overlap(_, _, _, _, _, _, _)
encode_frames_overlap(stereo, samples_per_frame, total_frames, enc, frame_idx, output, frames) ==
    IF frame_idx >= total_frames
    THEN [ok |-> TRUE, err |-> "", output |-> output, packets |-> <<>>,
          frames |-> frames, calls |-> Len(frames)]
    ELSE LET offset == frame_idx * (samples_per_frame \div 2)
             frame  == SubSeq(stereo, offset + 1, offset + samples_per_frame)
             res    == enc[Len(frames) + 1]
         IN  IF ~res.ok
             THEN [ok |-> FALSE, err |-> "encode_float", output |-> <<>>, packets |-> <<>>,
                   frames |-> Append(frames, FrameTag(frame)), calls |-> Len(frames) + 1]
             ELSE LET encoded_len == Len(res.bytes)
                  IN  encode_frames_overlap(stereo, samples_per_frame, total_frames, enc,
                          frame_idx + 1,
                          output \o u16_to_le_bytes(encoded_len)
                                 \o SubSeq(res.bytes, 1, encoded_len),
                          Append(frames, FrameTag(frame)))

\* The for loop of encode_stereo_to_opus, from frame_idx on.
RECURSIVE encode_frames(_, _, _, _, _, _, _)
encode_frames(stereo, samples_per_frame, total_frames, enc, frame_idx, output, frames) ==
    IF frame_idx >= total_frames
    THEN [ok |-> TRUE, err |-> "", output |-> output, packets |-> <<>>,
          frames |-> frames, calls |-> Len(frames)]
    ELSE LET offset == frame_idx * samples_per_frame
             frame  == SubSeq(stereo, offset + 1, offset + samples_per_frame)
             res    == enc[Len(frames) + 1]
         IN  IF ~res.ok
             THEN [ok |-> FALSE, err |-> "encode_float", output |-> <<>>, packets |-> <<>>,
                   frames |-> Append(frames, FrameTag(frame)), calls |-> Len(frames) + 1]
             ELSE LET encoded_len == Len(res.bytes)
                  IN  encode_frames(stereo, samples_per_frame, total_frames, enc,
                          frame_idx + 1,
                          output \o u16_to_le_bytes(encoded_len)
                                 \o SubSeq(res.bytes, 1, encoded_len),
                          Append(frames, FrameTag(frame)))

\* encode_stereo_to_opus: the length-prefixed stream, or the first error.
encode_stereo_to_opus(stereo, sample_rate, frame_size, enc) ==
    LET v == validate_input(Len(stereo), sample_rate, frame_size)
    IN  IF v # "Ok"
        THEN [ok |-> FALSE, err |-> v, output |-> <<>>, packets |-> <<>>,
              frames |-> <<>>, calls |-> 0]
        ELSE LET samples_per_frame == frame_size * 2
                 total_frames == Len(stereo) \div samples_per_frame
             IN  encode_frames(stereo, samples_per_frame, total_frames, enc, 0, <<>>, <<>>)

\* The for loop of encode_stereo_to_opus_packets over stereo.chunks(samples_per_frame),
\* from the chunk that starts after `start` samples.
RECURSIVE encode_chunks(_, _, _, _, _, _)
encode_chunks(stereo, samples_per_frame, enc, start, packets, frames) ==
    IF start >= Len(stereo)
    THEN [ok |-> TRUE, err |-> "", output |-> <<>>, packets |-> packets,
          frames |-> frames, calls |-> Len(frames)]
    ELSE LET chunk == SubSeq(stereo, start + 1, Min(start + samples_per_frame, Len(stereo)))
         IN  IF Len(chunk) # samples_per_frame
             THEN encode_chunks(stereo, samples_per_frame, enc,
                                start + samples_per_frame, packets, frames)
             ELSE LET res == enc[Len(frames) + 1]
                  IN  IF ~res.ok
                      THEN [ok |-> FALSE, err |-> "encode_float", output |-> <<>>,
                            packets |-> <<>>,
                            frames |-> Append(frames, FrameTag(chunk)),
                            calls |-> Len(frames) + 1]
                      ELSE encode_chunks(stereo, samples_per_frame, enc,
                               start + samples_per_frame,
                               Append(packets, SubSeq(res.bytes, 1, Len(res.bytes))),
                               Append(frames, FrameTag(chunk)))

\* encode_stereo_to_opus_packets: the discrete packets, or the first error.
encode_stereo_to_opus_packets(stereo, sample_rate, frame_size, enc) ==
    LET v == validate_input(Len(stereo), sample_rate, frame_size)
    IN  IF v # "Ok"
        THEN [ok |-> FALSE, err |-> v, output |-> <<>>, packets |-> <<>>,
              frames |-> <<>>, calls |-> 0]
        ELSE encode_chunks(stereo, frame_size * 2, enc, 0, <<>>, <<>>)

(***************************************************************************)
(* The decoder, a black box.  A decoder oracle is the sequence of results  *)
(* of the successive decode_float calls of one decode: an error, or the    *)
(* number of frames written into pcm (at most the frame_size pcm has room  *)
(* for).  The samples the decoder writes for the k-th packet are named k,  *)
(* a sample of digital silence is 0.                                       *)
(***************************************************************************)
DecErr == [ok |-> FALSE, decoded_frames |-> 0]
DecOk(n) == [ok |-> TRUE, decoded_frames |-> n]

\* The match on decode_float with an Err arm that appends nothing.
decoded_block_err_skipped(res, k, frame_size) ==
    IF res.ok
    THEN Repeat(res.decoded_frames * 2, k)
    ELSE <<>>

\* The match on decoder.decode_float(packet, &mut pcm, false): what is appended to output.
decoded_block(res, k, frame_size) ==
    IF res.ok
    THEN LET pcm == [i \in 1..(frame_size * 2) |->
                        IF i <= res.decoded_frames * 2 THEN k ELSE 0]
         IN  SubSeq(pcm, 1, res.decoded_frames * 2)
    ELSE Repeat(frame_size * 2, 0)

\* The while loop of decode_opus_to_stereo with the completeness test off by one
\* (>= for >): a last tuple that ends exactly at the end of the stream is dropped.
RECURSIVE decode_tuples_off_by_one(_, _, _, _, _, _)
decode_tuples_off_by_one(opus_data, frame_size, dec, offset, output, packets) ==
    IF ~(offset + 2 <= Len(opus_data))
    THEN [ok |-> TRUE, err |-> "", panic |-> FALSE, output |-> output,
          packets |-> packets, end |-> offset]
    ELSE LET packet_len == u16_from_le_bytes(opus_data[offset + 1], opus_data[offset + 2])
             start == offset + 2
         IN  IF start + packet_len >= Len(opus_data)
             THEN [ok |-> TRUE, err |-> "", panic |-> FALSE, output |-> output,
                   packets |-> packets, end |-> offset]
             ELSE LET packet == SubSeq(opus_data, start + 1, start + packet_len)
                      k == Len(packets) + 1
                  IN  decode_tuples_off_by_one(opus_data, frame_size, dec,
                          start + packet_len,
                          output \o (IF dec[k].ok THEN Repeat(dec[k].decoded_frames * 2, k)
                                     ELSE Repeat(frame_size * 2, 0)),
                          Append(packets, packet))

\* The while loop of decode_opus_to_stereo, from `offset` on.  `end` is where the
\* last complete tuple ended; `panic` is an index out of the slice's bounds.
RECURSIVE decode_tuples(_, _, _, _, _, _)
decode_tuples(opus_data, frame_size, dec, offset, output, packets) ==
    IF ~(offset + 2 <= Len(opus_data))
    THEN [ok |-> TRUE, err |-> "", panic |-> FALSE, output |-> output,
          packets |-> packets, end |-> offset]
    ELSE IF offset + 2 > Len(opus_data)   \* opus_data[offset + 1]: the slice's bounds check
    THEN [ok |-> FALSE, err |-> "index out of bounds", panic |-> TRUE,
          output |-> output, packets |-> packets, end |-> offset]
    ELSE LET packet_len == u16_from_le_bytes(opus_data[offset + 1], opus_data[offset + 2])
             start == offset + 2
         IN  IF start + packet_len > Len(opus_data)
             THEN [ok |-> TRUE, err |-> "", panic |-> FALSE, output |-> output,
                   packets |-> packets, end |-> offset]
             ELSE LET packet == SubSeq(opus_data, start + 1, start + packet_len)
                      k == Len(packets) + 1
                  IN  decode_tuples(opus_data, frame_size, dec, start + packet_len,
                          output \o decoded_block(dec[k], k, frame_size),
                          Append(packets, packet))

\* decode_opus_to_stereo: the caller's decoder, a framed stream.
decode_opus_to_stereo(opus_data, sample_rate, frame_size, dec) ==
    decode_tuples(opus_data, frame_size, dec, 0, <<>>, <<>>)

\* Decoder::new(sample_rate, Channels::Stereo): the codec builds decoders for its five rates.
DecoderNew(sample_rate) == sample_rate \in SupportedRates

\* The for loop of decode_opus_packets_to_stereo, from packet k on.
RECURSIVE decode_packets(_, _, _, _, _)
decode_packets(packets, frame_size, dec, k, output) ==
    IF k > Len(packets)
    THEN [ok |-> TRUE, err |-> "", panic |-> FALSE, output |-> output,
          packets |-> packets, end |-> 0]
    ELSE decode_packets(packets, frame_size, dec, k + 1,
                        output \o decoded_block(dec[k], k, frame_size))

\* decode_opus_packets_to_stereo with a loop that starts at the second packet.
decode_opus_packets_to_stereo_skip_first(packets, sample_rate, frame_size, dec) ==
    IF ~DecoderNew(sample_rate)
    THEN [ok |-> FALSE, err |-> "Decoder::new", panic |-> FALSE, output |-> <<>>,
          packets |-> <<>>, end |-> 0]
    ELSE decode_packets(packets, frame_size, dec, 2, <<>>)

\* decode_opus_packets_to_stereo: a decoder of its own, discrete packets.
decode_opus_packets_to_stereo(packets, sample_rate, frame_size, dec) ==
    IF ~DecoderNew(sample_rate)
    THEN [ok |-> FALSE, err |-> "Decoder::new", panic |-> FALSE, output |-> <<>>,
          packets |-> <<>>, end |-> 0]
    ELSE decode_packets(packets, frame_size, dec, 1, <<>>)

(***************************************************************************)
(* The inputs of the codec calls.                                          *)
(***************************************************************************)
\* Sample rates: the five supported ones, and two that are not.
Rates == SupportedRates \cup {0, 44100}

\* Frame sizes: every size legal at some rate, and three legal at none.
FrameSizes ==
    UNION {{get_valid_frame_sizes(r)[i] : i \in 1..Len(get_valid_frame_sizes(r))} :
           r \in SupportedRates} \cup {0, 1, 100}

\* Input lengths: up to MaxFrames whole frames, plus 0, 1 or 2 samples more.
StereoLens(frame_size) == {q * 2 * frame_size + r : q \in 0..MaxFrames, r \in 0..2}

\* Lengths of the packets the encoder writes: up to the whole 4000-byte buffer.
EncodedLens == {1, 256, EncodedBufLen}

\* Encoder oracles for frames i..k: the i-th packet is filled with the byte i.
RECURSIVE EncOracles(_, _)
EncOracles(i, k) ==
    IF i > k THEN {<<>>}
    ELSE {<<EncErr>>} \cup
         {<<EncOk(Repeat(l, i))>> \o rest : l \in EncodedLens, rest \in EncOracles(i + 1, k)}

\* How many encode_float calls an input asks for.
FramesIn(stereo_len, sample_rate, frame_size) ==
    IF validate_input(stereo_len, sample_rate, frame_size) = "Ok"
    THEN stereo_len \div (frame_size * 2)
    ELSE 0

\* Bytes of an arbitrary stream: a second byte above 0 declares 256 bytes or more.
ByteVals == {0, 1, 2}

\* Frame sizes handed to the decode entry points (they validate nothing).
DecodeFrameSizes == {1, 2}

DecOutcomes(frame_size) == {DecErr} \cup {DecOk(n) : n \in 0..frame_size}

\* A packet made by the encoder from a frame of frame_size at the same rate holds
\* exactly frame_size frames: the decoder returns them all, or fails.
DecOutcomesOfEncoded(frame_size) == {DecErr, DecOk(frame_size)}

RECURSIVE SeqsOfLen(_, _)
SeqsOfLen(S, n) ==
    IF n = 0 THEN {<<>>} ELSE {Append(s, x) : s \in SeqsOfLen(S, n - 1), x \in S}

\* The complete (length, packet) tuples a stream starts with.
RECURSIVE Tuples(_)
Tuples(data) ==
    IF Len(data) < 2 THEN <<>>
    ELSE LET l == data[1] + 256 * data[2]
         IN  IF l > Len(data) - 2 THEN <<>>
             ELSE <<SubSeq(data, 3, 2 + l)>> \o Tuples(SubSeq(data, 3 + l, Len(data)))

PacketVals == {<<>>, <<7>>}

NoCall == [fn |-> "none"]

(***************************************************************************)
(* The codec entry points, each called on inputs of the sets above.        *)
(***************************************************************************)
CallEncodeStereoToOpus ==
    /\ UNCHANGED pipe_vars
    /\ codec_call = NoCall
    /\ \E sample_rate \in Rates, frame_size \in FrameSizes :
       \E stereo_len \in StereoLens(frame_size) :
       \E enc \in EncOracles(1, FramesIn(stereo_len, sample_rate, frame_size)) :
          /\ codec_call' = [fn |-> "encode_stereo_to_opus", stereo_len |-> stereo_len,
                            sample_rate |-> sample_rate, frame_size |-> frame_size,
                            enc |-> enc]
          /\ codec_ret' = encode_stereo_to_opus(Stereo(stereo_len), sample_rate,
                                                frame_size, enc)

CallEncodeStereoToOpusPackets ==
    /\ UNCHANGED pipe_vars
    /\ codec_call = NoCall
    /\ \E sample_rate \in Rates, frame_size \in FrameSizes :
       \E stereo_len \in StereoLens(frame_size) :
       \E enc \in EncOracles(1, FramesIn(stereo_len, sample_rate, frame_size)) :
          /\ codec_call' = [fn |-> "encode_stereo_to_opus_packets",
                            stereo_len |-> stereo_len,
                            sample_rate |-> sample_rate, frame_size |-> frame_size,
                            enc |-> enc]
          /\ codec_ret' = encode_stereo_to_opus_packets(Stereo(stereo_len), sample_rate,
                                                        frame_size, enc)

CallDecodeOpusToStereo ==
    /\ UNCHANGED pipe_vars
    /\ codec_call = NoCall
    /\ \E opus_data \in SeqsUpTo(ByteVals, MaxBytes), frame_size \in DecodeFrameSizes :
       \E dec \in SeqsOfLen(DecOutcomes(frame_size), Len(Tuples(opus_data))) :
          /\ codec_call' = [fn |-> "decode_opus_to_stereo", opus_data |-> opus_data,
                            sample_rate |-> 48000, frame_size |-> frame_size,
                            dec |-> dec, from_encoder |-> FALSE]
          /\ codec_ret' = decode_opus_to_stereo(opus_data, 48000, frame_size, dec)

CallDecodeOpusPacketsToStereo ==
    /\ UNCHANGED pipe_vars
    /\ codec_call = NoCall
    /\ \E packets \in SeqsUpTo(PacketVals, MaxPackets), sample_rate \in Rates,
          frame_size \in DecodeFrameSizes :
       \E dec \in SeqsOfLen(DecOutcomes(frame_size), Len(packets)) :
          /\ codec_call' = [fn |-> "decode_opus_packets_to_stereo", packets |-> packets,
                            sample_rate |-> sample_rate, frame_size |-> frame_size,
                            dec |-> dec, from_encoder |-> FALSE]
          /\ codec_ret' = decode_opus_packets_to_stereo(packets, sample_rate,
                                                        frame_size, dec)

\* test_simple_encode_decode: the packets of a successful encode, decoded with the
\* same rate and frame size.
DecodeEncodedPackets ==
    /\ UNCHANGED pipe_vars
    /\ codec_call.fn = "encode_stereo_to_opus_packets"
    /\ codec_ret.ok
    /\ \E dec \in SeqsOfLen(DecOutcomesOfEncoded(codec_call.frame_size),
                            Len(codec_ret.packets)) :
          /\ codec_call' = [fn |-> "decode_opus_packets_to_stereo",
                            packets |-> codec_ret.packets,
                            sample_rate |-> codec_call.sample_rate,
                            frame_size |-> codec_call.frame_size,
                            dec |-> dec, from_encoder |-> TRUE,
                            stereo_len |-> codec_call.stereo_len,
                            encoded |-> codec_ret.packets]
          /\ codec_ret' = decode_opus_packets_to_stereo(codec_ret.packets,
                              codec_call.sample_rate, codec_call.frame_size, dec)

\* The framed stream of a successful encode, handed to the framed decoder.
DecodeEncodedStream ==
    /\ UNCHANGED pipe_vars
    /\ codec_call.fn = "encode_stereo_to_opus"
    /\ codec_ret.ok
    /\ \E dec \in SeqsOfLen(DecOutcomesOfEncoded(codec_call.frame_size),
                            Len(Tuples(codec_ret.output))) :
          /\ codec_call' = [fn |-> "decode_opus_to_stereo",
                            opus_data |-> codec_ret.output,
                            sample_rate |-> codec_call.sample_rate,
                            frame_size |-> codec_call.frame_size,
                            dec |-> dec, from_encoder |-> TRUE,
                            stereo_len |-> codec_call.stereo_len,
                            encoded |-> [i \in 1..Len(codec_call.enc) |->
                                            codec_call.enc[i].bytes]]
          /\ codec_ret' = decode_opus_to_stereo(codec_ret.output,
                              codec_call.sample_rate, codec_call.frame_size, dec)

(***************************************************************************)
(* Audio on the transcription path.  A block of mono samples is kept as    *)
(* its runs: <<[n |-> 3, v |-> 20], [n |-> 2, v |-> 0]>> is three samples *)
(* of amplitude 0.1 followed  by two of silence.  Amplitudes are counted in *)
(* units of 0.005, so that the RMS test is exact integer arithmetic.       *)
(***************************************************************************)
Run(n, v) == IF n = 0 THEN <<>> ELSE <<[n |-> n, v |-> v]>>

RECURSIVE SamplesIn(_)
SamplesIn(runs) == IF runs = <<>> THEN 0 ELSE Head(runs).n + SamplesIn(Tail(runs))

RECURSIVE SumOfSquares(_)
SumOfSquares(runs) ==
    IF runs = <<>> THEN 0
    ELSE Head(runs).n * Head(runs).v * Head(runs).v + SumOfSquares(Tail(runs))

\* &bytes[bytes.len() - k..]: the last k samples of a block that holds more than k.
RECURSIVE LastSamples(_, _)
LastSamples(runs, k) ==
    IF k = 0 \/ runs = <<>> THEN <<>>
    ELSE LET last == runs[Len(runs)]
         IN  IF last.n >= k THEN Run(k, last.v)
             ELSE LastSamples(SubSeq(runs, 1, Len(runs) - 1), k - last.n) \o <<last>>

(***************************************************************************)
(* whisper.rs: the worker's constants and its silence test.                *)
(***************************************************************************)
\* silence_threshold = 0.015, in units of 0.005.
silence_threshold == 3

\* silence_hold = 2048 * 2
silence_hold == 4096

silence_check_tail == 512

\* (16000 * 3): the minimum buffer, three seconds at 16 kHz.
min_buffer == 48000

\* The mean square of a block is below the square of the threshold (an empty block
\* has no energy at all).
RmsBelow(samples, threshold) ==
    \/ SamplesIn(samples) = 0
    \/ SumOfSquares(samples) < threshold * threshold * SamplesIn(samples)

\* is_silence with the comparison turned round (rms > threshold).
is_silence_inverted(samples, threshold) ==
    IF SamplesIn(samples) = 0 THEN TRUE
    ELSE SumOfSquares(samples) > threshold * threshold * SamplesIn(samples)

\* is_silence: an empty slice is silent; otherwise rms < threshold, that is
\* sum(s * s) / len < threshold^2.
is_silence(samples, threshold) ==
    IF SamplesIn(samples) = 0 THEN TRUE
    ELSE SumOfSquares(samples) < threshold * threshold * SamplesIn(samples)

\* on_block with a silence-hold that fires on any silent tail.
on_block_any_silence(buf, silence, bytes) ==
    LET buffer1 == buf \o bytes
        check   == IF SamplesIn(bytes) > silence_check_tail
                   THEN LastSamples(bytes, silence_check_tail) ELSE bytes
        silent  == is_silence(check, silence_threshold)
        count1  == IF silent THEN silence + SamplesIn(bytes) ELSE 0
        held    == silent /\ SamplesIn(buffer1) # 0
        count2  == IF held THEN 0 ELSE count1
    IN  IF ~held /\ SamplesIn(buffer1) < min_buffer
        THEN [next |-> "continue", buffer |-> buffer1, silence_samples |-> count1]
        ELSE IF is_silence(buffer1, silence_threshold)
        THEN [next |-> "continue", buffer |-> <<>>, silence_samples |-> 0]
        ELSE [next |-> "detect", buffer |-> buffer1, silence_samples |-> count2]

\* on_block with a buffer that has to exceed the minimum.
on_block_min_exclusive(buf, silence, bytes) ==
    LET buffer1 == buf \o bytes
        check   == IF SamplesIn(bytes) > silence_check_tail
                   THEN LastSamples(bytes, silence_check_tail) ELSE bytes
        silent  == is_silence(check, silence_threshold)
        count1  == IF silent THEN silence + SamplesIn(bytes) ELSE 0
        held    == count1 >= silence_hold /\ SamplesIn(buffer1) # 0
        count2  == IF held THEN 0 ELSE count1
    IN  IF ~held /\ SamplesIn(buffer1) <= min_buffer
        THEN [next |-> "continue", buffer |-> buffer1, silence_samples |-> count1]
        ELSE IF is_silence(buffer1, silence_threshold)
        THEN [next |-> "continue", buffer |-> <<>>, silence_samples |-> 0]
        ELSE [next |-> "detect", buffer |-> buffer1, silence_samples |-> count2]

\* on_block whose hold fires only above silence_hold.
on_block_hold_exclusive(buf, silence, bytes) ==
    LET buffer1 == buf \o bytes
        check   == IF SamplesIn(bytes) > silence_check_tail
                   THEN LastSamples(bytes, silence_check_tail)
                   ELSE bytes
        silent  == is_silence(check, silence_threshold)
        count1  == IF silent THEN silence + SamplesIn(bytes) ELSE 0
        held    == count1 > silence_hold /\ SamplesIn(buffer1) # 0
        count2  == IF held THEN 0 ELSE count1
    IN  IF ~held /\ SamplesIn(buffer1) < min_buffer
        THEN [next |-> "continue", buffer |-> buffer1, silence_samples |-> count1]
        ELSE IF is_silence(buffer1, silence_threshold)
        THEN [next |-> "continue", buffer |-> <<>>, silence_samples |-> 0]
        ELSE [next |-> "detect", buffer |-> buffer1, silence_samples |-> count2]

\* The Ok(bytes) arm of the worker's loop up to the transcription call: what the
\* worker does with a block it received.  `next` is "continue" (back to the loop
\* head) or "detect" (spotter.detect is called on the buffer).
on_block(buf, silence, bytes) ==
    LET buffer1 == buf \o bytes
        check   == IF SamplesIn(bytes) > silence_check_tail
                   THEN LastSamples(bytes, silence_check_tail)
                   ELSE bytes
        silent  == is_silence(check, silence_threshold)
        count1  == IF silent THEN silence + SamplesIn(bytes) ELSE 0
        held    == count1 >= silence_hold /\ SamplesIn(buffer1) # 0
        count2  == IF held THEN 0 ELSE count1
    IN  IF ~held /\ SamplesIn(buffer1) < min_buffer
        THEN [next |-> "continue", buffer |-> buffer1, silence_samples |-> count1]
        ELSE IF is_silence(buffer1, silence_threshold)
        THEN [next |-> "continue", buffer |-> <<>>, silence_samples |-> 0]
        ELSE [next |-> "detect", buffer |-> buffer1, silence_samples |-> count2]

(***************************************************************************)
(* microphone.rs: the resamplers' output lengths and the capture callback. *)
(***************************************************************************)
OPUS_FRAME_SIZE == 480

\* The codec's fixed rate and the rate the transcription engine expects.
codec_sample_rate == 48000

target_sample_rate == 16000

\* (a / b).round() for naturals a, b > 0.
RoundDiv(a, b) == (2 * a + b) \div (2 * b)

\* resample_linear_stereo: the number of samples it returns for n interleaved
\* samples: output_frames = (input_frames / ratio).round(), two samples a frame.
resample_linear_stereo_len(n, from_rate, to_rate) ==
    IF from_rate = to_rate THEN n
    ELSE 2 * RoundDiv((n \div 2) * to_rate, from_rate)

\* resample_linear: the number of samples it returns for n mono samples:
\* output_len = (samples.len() / ratio) as usize, every one of them pushed.
resample_linear_len(n, from_rate, to_rate) ==
    IF from_rate = to_rate THEN n
    ELSE (n * to_rate) \div from_rate

\* data.chunks(channels): the number of mono samples of a block of n samples.
mono_len(n, ch) == (n + ch - 1) \div ch

\* The packet the callback's encoder writes for a frame: its length is an input.
CapturePacketLen == 3

\* The results of the encode_float calls for the j-th frame drained by one
\* invocation: the encoder fails on the frame fail_at (0: on none).
CaptureEnc(j, fail_at, calls) ==
    IF j = fail_at THEN <<EncErr>>
    ELSE [i \in 1..calls |-> EncOk(Repeat(CapturePacketLen, i))]

\* The accumulation buffer holds samples of the resampled stream, each named by its
\* position in that stream.  It is kept as its runs of consecutive samples:
\* <<[from |-> 5, n |-> 3]>> is the samples 5, 6, 7.
RECURSIVE IdsIn(_)
IdsIn(runs) == IF runs = <<>> THEN 0 ELSE Head(runs).n + IdsIn(Tail(runs))

\* The samples of the runs, one by one.
RECURSIVE Ids(_)
Ids(runs) ==
    IF runs = <<>> THEN <<>>
    ELSE [i \in 1..Head(runs).n |-> Head(runs).from + i - 1] \o Ids(Tail(runs))

\* local_buffer.extend(&sampled): n more samples, the first of them numbered from.
Extend(runs, from, n) ==
    IF n = 0 THEN runs
    ELSE IF runs # <<>> /\ runs[Len(runs)].from + runs[Len(runs)].n = from
    THEN [runs EXCEPT ![Len(runs)].n = @ + n]
    ELSE Append(runs, [from |-> from, n |-> n])

\* The first count samples of the buffer, and the buffer without them
\* (local_buffer.drain(..samples_per_frame)).
RECURSIVE TakeIds(_, _)
TakeIds(runs, count) ==
    IF count = 0 \/ runs = <<>> THEN <<>>
    ELSE IF Head(runs).n <= count
    THEN <<Head(runs)>> \o TakeIds(Tail(runs), count - Head(runs).n)
    ELSE <<[from |-> Head(runs).from, n |-> count]>>

RECURSIVE DropIds(_, _)
DropIds(runs, count) ==
    IF count = 0 \/ runs = <<>> THEN runs
    ELSE IF Head(runs).n <= count
    THEN DropIds(Tail(runs), count - Head(runs).n)
    ELSE <<[from |-> Head(runs).from + count, n |-> Head(runs).n - count]>> \o Tail(runs)

\* What a relay message was encoded from: the frame's first sample, its length and
\* whether it is a run of consecutive samples of the resampled stream.
Slice(runs) ==
    [first |-> runs[1].from,
     n |-> IdsIn(runs),
     consecutive |-> \A i \in 1..(Len(runs) - 1) :
                        runs[i].from + runs[i].n = runs[i + 1].from]

\* The j-th frame the while loop of the input callback drains from the buffer it
\* starts with (local_buffer.drain(..samples_per_frame), j - 1 frames after the
\* buffer's head), and the result of encoding it.
frame_at(buf, samples_per_frame, j) ==
    TakeIds(DropIds(buf, (j - 1) * samples_per_frame), samples_per_frame)

encoded_at(buf, samples_per_frame, j, fail_at) ==
    encode_stereo_to_opus(Ids(frame_at(buf, samples_per_frame, j)), codec_sample_rate,
                          OPUS_FRAME_SIZE,
                          CaptureEnc(j, fail_at, samples_per_frame \div (OPUS_FRAME_SIZE * 2)))

\* The while loop of the input callback: drain one frame at a time, encode it and
\* send it to the relay, as long as the buffer holds a frame.  The loop ends early, by
\* the panic!("error on opus") of the Err arm or by the unwrap of a failed send, in
\* the first iteration whose encode or send fails: that frame is drained and lost.
frame_loop(buf, samples_per_frame, fail_at, relay_open) ==
    LET ready     == IdsIn(buf) \div samples_per_frame
        fails(j)  == \/ ~encoded_at(buf, samples_per_frame, j, fail_at).ok
                     \/ ~relay_open
        panic     == \E j \in 1..ready : fails(j)
        drained   == IF ~panic THEN ready
                     ELSE CHOOSE j \in 1..ready :
                             fails(j) /\ \A before \in 1..(j - 1) : ~fails(before)
        sent      == IF ~panic THEN ready ELSE drained - 1
    IN  [local_buffer |-> DropIds(buf, drained * samples_per_frame),
         msgs |-> [j \in 1..sent |->
                      [bytes |-> encoded_at(buf, samples_per_frame, j, fail_at).output,
                       frame |-> Slice(frame_at(buf, samples_per_frame, j))]],
         panic |-> panic]

(***************************************************************************)
(* The state after construction: Whisper::init (whisper_node.rs:36-51),    *)
(* Microphone::new (the device's default input config) and the runtime     *)
(* flag of get_runtime (runtime.rs:8-14).                                  *)
(***************************************************************************)
\* Option<String>: the value of the Match Slot and of a detection.  A Some carries
\* the number of the transcription call it comes from.
None == [some |-> FALSE, keyword |-> "", id |-> 0]
Some(keyword, id) == [some |-> TRUE, keyword |-> keyword, id |-> id]

\* A send on a channel that holds one message at most (mpsc::sync_channel(1)).
send_blocks_when_full(chan) == Len(chan) >= 1

\* Sender::send on a channel made by std::sync::mpsc::channel(): the channel is
\* unbounded, the message is queued and the sender never waits for the receiver.
send_blocks(chan) == FALSE

\* The std::sync::mpsc channels: recv and recv_timeout hand out the oldest message.
recv_newest(chan) == [msg |-> chan[Len(chan)], rest |-> SubSeq(chan, 1, Len(chan) - 1)]

recv(chan) == [msg |-> Head(chan), rest |-> Tail(chan)]

recv_timeout(chan) == [msg |-> Head(chan), rest |-> Tail(chan)]

\* A publish that leaves an unread value where it is.
publish_unless_unread(slot, detected) == IF slot.some THEN slot ELSE detected

\* *guard = Some(detection.keyword.clone()): the slot's value is replaced.
publish(slot, detected) == detected

\* matches.take(): the slot's value, and None left in its place.
take(slot) == [taken |-> slot, left |-> None]

\* The settings of an opus encoder that the program touches.  Encoder::new fixes the
\* application and leaves bitrate, bandwidth and signal hint on automatic.
Encoder_new(application) ==
    [application |-> application, bitrate |-> "Auto", bandwidth |-> "Auto",
     signal |-> "Auto"]

\* No encoder: the stream has not been built.
NoEncoder == [application |-> "None", bitrate |-> "None", bandwidth |-> "None",
              signal |-> "None"]

\* The three setter calls that precede encode_float at both call sites:
\* set_bitrate(Bits(128000)), set_bandwidth(Fullband), set_signal(Music).
encoder_configured(enc) ==
    [enc EXCEPT !.bitrate = "Bits(128000)", !.bandwidth = "Fullband", !.signal = "Music"]

\* The encoder encode_stereo_to_opus_packets builds for each call and configures
\* before its first frame.
packets_encoder == encoder_configured(Encoder_new("Audio"))

PipeInit(configs) ==
    /\ config \in configs
    /\ keywords = <<>>
    /\ spellbook = [t \in {} |-> ""]
    /\ whisper_thread = "None"
    /\ sender = "Some"
    /\ stream = "None"
    /\ running = FALSE
    /\ freed = FALSE
    /\ node_panic = FALSE
    /\ start_error = FALSE
    /\ local_buffer = <<>>
    /\ cb_state = "ok"
    /\ callbacks = 0
    /\ resampled_total = 0
    /\ encoder = NoEncoder
    /\ mono_chan = <<>>
    /\ tx_alive = FALSE
    /\ relay_chan = <<>>
    /\ wpc = "not started"
    /\ wkeywords = <<>>
    /\ buffer = <<>>
    /\ silence_samples = 0
    /\ detection = None
    /\ matches = None
    /\ lock = "none"
    /\ relay_sent = <<>>
    /\ speak_emitted = <<>>
    /\ mono_sent = <<>>
    /\ mono_received = <<>>
    /\ slot_log = <<>>
    /\ cast_emitted = <<>>
    /\ detect_log = <<>>
    /\ fed_all_silent = TRUE

(***************************************************************************)
(* whisper_node.rs: the node's methods.                                    *)
(***************************************************************************)
MaxSpells == 2       \* register_spell_trigger calls

\* The trigger phrases: the empty phrase is contained in every transcription.
Triggers == {"fire", ""}

Spells == {"fireball"}

\* register_spell_trigger that pushes the keyword and inserts nothing.
RegisterSpellTrigger_no_insert(triggers) ==
    /\ Len(keywords) < MaxSpells
    /\ \E trigger_frase \in triggers :
          keywords' = Append(keywords, trigger_frase)
    /\ UNCHANGED <<config, spellbook, whisper_thread, sender, stream, running, freed,
                   node_panic, start_error>>
    /\ UNCHANGED <<codec_vars, capture_vars, chan_vars, worker_vars, slot_vars, log_vars>>

\* register_spell_trigger: keywords.push, spellbook.insert.
RegisterSpellTrigger(triggers) ==
    /\ Len(keywords) < MaxSpells
    /\ \E trigger_frase \in triggers, spell \in Spells :
          /\ keywords' = Append(keywords, trigger_frase)
          /\ spellbook' = [t \in DOMAIN spellbook \cup {trigger_frase} |->
                              IF t = trigger_frase THEN spell ELSE spellbook[t]]
    /\ UNCHANGED <<config, whisper_thread, sender, stream, running, freed, node_panic,
                   start_error>>
    /\ UNCHANGED <<codec_vars, capture_vars, chan_vars, worker_vars, slot_vars, log_vars>>

\* init_whisper with a failed start that leaves the mono sender alive.
InitWhisper_tx_kept ==
    /\ wpc = "not started"
    /\ sender = "Some"
    /\ \E started \in BOOLEAN :
          /\ stream' = IF started THEN "Some" ELSE "None"
          /\ tx_alive' = TRUE
          /\ start_error' = ~started
          /\ encoder' = IF started THEN Encoder_new("Voip") ELSE encoder
    /\ whisper_thread' = "Some"
    /\ wpc' = "spawned"
    /\ wkeywords' = keywords
    /\ sender' = "None"
    /\ mono_chan' = <<>>
    /\ UNCHANGED <<config, keywords, spellbook, running, freed, node_panic, relay_chan>>
    /\ UNCHANGED <<buffer, silence_samples, detection>>
    /\ UNCHANGED <<local_buffer, cb_state, callbacks, resampled_total>>
    /\ UNCHANGED <<codec_vars, slot_vars, log_vars>>

\* init_whisper, first call: spawn the worker on a new mono channel, take the relay
\* sender out of the node and start the microphone with both senders.  Microphone::start
\* fails on an unsupported sample format or when the stream cannot be built or played;
\* the senders it was given are then dropped.
InitWhisper ==
    /\ wpc = "not started"
    /\ sender = "Some"
    /\ \E started \in BOOLEAN :
          /\ stream' = IF started THEN "Some" ELSE "None"
          /\ tx_alive' = started
          /\ start_error' = ~started            \* Err(err) => godot_error!(..)
          /\ encoder' = IF started THEN Encoder_new("Voip") ELSE encoder
    /\ whisper_thread' = "Some"
    /\ wpc' = "spawned"
    /\ wkeywords' = keywords
    /\ sender' = "None"
    /\ mono_chan' = <<>>
    /\ UNCHANGED <<config, keywords, spellbook, running, freed, node_panic, relay_chan>>
    /\ UNCHANGED <<buffer, silence_samples, detection>>
    /\ UNCHANGED <<local_buffer, cb_state, callbacks, resampled_total>>
    /\ UNCHANGED <<codec_vars, slot_vars, log_vars>>

\* A later init_whisper that finds a sender and starts the microphone once more.
InitWhisperAgain_restarts ==
    /\ wpc # "not started"
    /\ sender = "None"
    /\ ~node_panic
    /\ whisper_thread' = "Second"
    /\ stream' = "Some"
    /\ UNCHANGED <<config, keywords, spellbook, sender, running, freed, node_panic,
                   start_error>>
    /\ UNCHANGED <<codec_vars, capture_vars, chan_vars, worker_vars, slot_vars, log_vars>>

\* init_whisper, called again: a second worker is spawned on a channel of its own and
\* its handle replaces the first one's; then self.sender.take().unwrap() panics on
\* None and the new channel's sender is dropped with it, so that the second worker
\* never receives a block.  The first worker and the stream go on.
InitWhisperAgain ==
    /\ wpc # "not started"
    /\ sender = "None"
    /\ ~node_panic
    /\ whisper_thread' = "Second"
    /\ node_panic' = TRUE
    /\ UNCHANGED <<config, keywords, spellbook, sender, stream, running, freed, start_error>>
    /\ UNCHANGED <<codec_vars, capture_vars, chan_vars, worker_vars, slot_vars, log_vars>>

\* The handle joined whether its thread has finished or not.
join_unconditionally(handle, finished) == "None"

\* if let Some(thread) = self.whisper_thread.take(): a thread that is_finished is
\* joined and its outcome logged (both arms of the match on join only print), a
\* thread still running has its handle put back.
join_if_finished(handle, finished) ==
    IF handle # "None" /\ finished THEN "None" ELSE handle

\* process: try to take a keyword out of the Match Slot, emit at most one relay
\* message through speak, emit the spell of the keyword through cast, and join the
\* worker if it has finished.
Process ==
    LET locked == lock = "none"                       \* try_lock succeeded
        taken  == IF locked THEN take(matches).taken ELSE None
        magic  == IF taken.some /\ taken.keyword # "" THEN taken ELSE None
        known  == magic.keyword \in DOMAIN spellbook
    IN  /\ matches' = IF locked THEN take(matches).left ELSE matches
        /\ slot_log' = IF taken.some THEN Append(slot_log, [op |-> "take", id |-> taken.id])
                       ELSE slot_log
        /\ IF relay_chan # <<>>
           THEN /\ relay_chan' = recv_timeout(relay_chan).rest
                /\ speak_emitted' = Append(speak_emitted, recv_timeout(relay_chan).msg.frame)
           ELSE UNCHANGED <<relay_chan, speak_emitted>>
        /\ IF magic.some /\ ~known
           THEN \* self.spellbook[&magic] panics on a missing key
                /\ node_panic' = TRUE
                /\ UNCHANGED <<cast_emitted, whisper_thread>>
           ELSE /\ UNCHANGED node_panic
                /\ cast_emitted' =
                      IF magic.some
                      THEN Append(cast_emitted, [spell |-> spellbook[magic.keyword],
                                                 id |-> magic.id])
                      ELSE cast_emitted
                /\ \E second_finished \in BOOLEAN :
                      whisper_thread' =
                         join_if_finished(whisper_thread,
                                          IF whisper_thread = "Second" THEN second_finished
                                          ELSE wpc \in {"finished", "panicked"})
        /\ UNCHANGED <<config, keywords, spellbook, sender, stream, running, freed, start_error>>
        /\ UNCHANGED <<mono_chan, tx_alive, lock>>
        /\ UNCHANGED <<relay_sent, mono_sent, mono_received, detect_log, fed_all_silent>>
        /\ UNCHANGED <<codec_vars, capture_vars, worker_vars>>

\* decode_audio: decode_opus_to_stereo(&mut self.decoder, &encoded[..], 48000, 480)
\* and unwrap, with the results `dec` of the decoder on the stream's packets.
decode_audio(encoded, dec) ==
    decode_opus_to_stereo(encoded, codec_sample_rate, OPUS_FRAME_SIZE, dec).output

\* A Runtime::free that stores true.
Free_stores_true ==
    /\ running' = TRUE
    /\ freed' = TRUE
    /\ UNCHANGED <<config, keywords, spellbook, whisper_thread, sender, stream, node_panic,
                   start_error>>
    /\ UNCHANGED <<codec_vars, capture_vars, chan_vars, worker_vars, slot_vars, log_vars>>

\* Runtime::free, called by on_level_deinit at the Scene level:
\* runtime.running.store(false, Ordering::Relaxed).
Free ==
    /\ running' = FALSE
    /\ freed' = TRUE
    /\ UNCHANGED <<config, keywords, spellbook, whisper_thread, sender, stream, node_panic,
                   start_error>>
    /\ UNCHANGED <<codec_vars, capture_vars, chan_vars, worker_vars, slot_vars, log_vars>>

\* Microphone::stop that pauses the stream and leaves it in the microphone.
Stop_pause_only ==
    /\ UNCHANGED <<stream, tx_alive>>
    /\ UNCHANGED <<config, keywords, spellbook, whisper_thread, sender, running, freed,
                   node_panic, start_error>>
    /\ UNCHANGED <<mono_chan, relay_chan>>
    /\ UNCHANGED <<codec_vars, capture_vars, worker_vars, slot_vars, log_vars>>

\* Microphone::stop: the stream is taken out of the microphone, paused and dropped
\* at the end of the if-let; the callback's closure goes with it, and with the
\* closure its two senders.  Without a stream nothing happens.
Stop ==
    /\ stream' = "None"
    /\ tx_alive' = (tx_alive /\ stream # "Some")
    /\ UNCHANGED <<config, keywords, spellbook, whisper_thread, sender, running, freed,
                   node_panic, start_error>>
    /\ UNCHANGED <<mono_chan, relay_chan>>
    /\ UNCHANGED <<codec_vars, capture_vars, worker_vars, slot_vars, log_vars>>

(***************************************************************************)
(* microphone.rs: the input callback of build_stream (debug is false at    *)
(* the node's only Microphone::new, so nothing is forwarded to a monitor). *)
(* The relay receiver is a field of the node and outlives the stream, so   *)
(* relay_audio.send finds it alive.  Sample values are not computed on the *)
(* codec path (samples are named by position); on the mono path a block is *)
(* given by its runs of equal amplitude and lengths are computed in exact  *)
(* integer arithmetic, where the code uses f32/f64.                        *)
(***************************************************************************)
MaxCallbacks == 2    \* invocations of the capture callback

\* One invocation on a block of data_len samples of amplitude amp (a block whose
\* last tail_len mono samples are silent when tail_len > 0).
InputCallback(data_len, amp, tail_len, fail_at) ==
    LET sampled == resample_linear_stereo_len(data_len, config.sample_rate,
                                              codec_sample_rate)
        extended == Extend(local_buffer, resampled_total + 1, sampled)
        samples_per_frame == OPUS_FRAME_SIZE * config.channels
        looped == frame_loop(extended, samples_per_frame, fail_at, TRUE)
        mono_samples == mono_len(data_len, config.channels)
        resampled == resample_linear_len(mono_samples, config.sample_rate,
                                         target_sample_rate)
        silent_tail == Min(tail_len, resampled)
        block == Run(resampled - silent_tail, amp) \o Run(silent_tail, 0)
        received == wpc \notin {"finished", "panicked"}   \* the worker's rx is alive
    IN  /\ stream = "Some"
        /\ cb_state = "ok"
        /\ callbacks < MaxCallbacks
        /\ ~send_blocks(relay_chan)
        /\ ~send_blocks(mono_chan)
        /\ fail_at <= IdsIn(extended) \div samples_per_frame
        /\ callbacks' = callbacks + 1
        /\ resampled_total' = resampled_total + sampled
        /\ encoder' = IF IdsIn(extended) >= samples_per_frame
                      THEN encoder_configured(encoder)   \* by encode_stereo_to_opus
                      ELSE encoder
        /\ local_buffer' = looped.local_buffer
        /\ relay_chan' = relay_chan \o looped.msgs
        /\ relay_sent' = relay_sent \o [i \in 1..Len(looped.msgs) |->
                                           looped.msgs[i].frame]
        /\ IF looped.panic
           THEN /\ cb_state' = "panicked"
                /\ UNCHANGED <<mono_chan, mono_sent>>
           ELSE /\ cb_state' = "ok"
                /\ IF received
                   THEN /\ mono_chan' = Append(mono_chan, [seq |-> callbacks + 1,
                                                          bytes |-> block])
                        /\ mono_sent' = Append(mono_sent, callbacks + 1)
                   ELSE UNCHANGED <<mono_chan, mono_sent>>
        /\ UNCHANGED <<tx_alive, speak_emitted, mono_received, slot_log, cast_emitted,
                       detect_log, fed_all_silent>>
        /\ UNCHANGED <<codec_vars, node_vars, worker_vars, slot_vars>>

(***************************************************************************)
(* whisper.rs: the worker thread of WhisperKeywordSpotter::start.          *)
(***************************************************************************)
MaxDetections == 2   \* transcription calls

\* The thread starts: WhisperKeywordSpotter::new loads the model (the thread returns
\* if that fails), create_state().unwrap() may panic.
WorkerInit ==
    /\ wpc = "spawned"
    /\ \E outcome \in {"guard", "finished", "panicked"} : wpc' = outcome
    /\ UNCHANGED <<wkeywords, buffer, silence_samples, detection>>
    /\ UNCHANGED <<codec_vars, node_vars, capture_vars, chan_vars, slot_vars, log_vars>>

\* while !running.load(Ordering::Relaxed)
WorkerGuard ==
    /\ wpc = "guard"
    /\ wpc' = IF ~running THEN "recv" ELSE "finished"
    /\ UNCHANGED <<wkeywords, buffer, silence_samples, detection>>
    /\ UNCHANGED <<codec_vars, node_vars, capture_vars, chan_vars, slot_vars, log_vars>>

\* rx.recv() returned Ok(bytes): the block is handled up to the transcription call.
WorkerRecv ==
    /\ wpc = "recv"
    /\ mono_chan # <<>>
    /\ Len(detect_log) < MaxDetections
    /\ LET bytes == recv(mono_chan).msg.bytes
           step  == on_block(buffer, silence_samples, bytes)
       IN  /\ mono_chan' = recv(mono_chan).rest
           /\ mono_received' = Append(mono_received, recv(mono_chan).msg.seq)
           /\ fed_all_silent' = (fed_all_silent /\ RmsBelow(bytes, silence_threshold))
           /\ buffer' = step.buffer
           /\ silence_samples' = step.silence_samples
           /\ wpc' = IF step.next = "detect" THEN "detect" ELSE "guard"
           /\ detect_log' =
                 IF step.next = "detect"
                 THEN Append(detect_log, [samples |-> step.buffer,
                                          all_silent |-> fed_all_silent'])
                 ELSE detect_log
    /\ UNCHANGED <<wkeywords, detection, tx_alive, relay_chan>>
    /\ UNCHANGED <<relay_sent, speak_emitted, mono_sent, slot_log, cast_emitted>>
    /\ UNCHANGED <<codec_vars, node_vars, capture_vars, slot_vars>>

\* A receive that reports disconnection as soon as the senders are gone.
WorkerDisconnected_early ==
    /\ wpc = "recv"
    /\ ~tx_alive
    /\ wpc' = "finished"
    /\ UNCHANGED <<wkeywords, buffer, silence_samples, detection>>
    /\ UNCHANGED <<codec_vars, node_vars, capture_vars, chan_vars, slot_vars, log_vars>>

\* rx.recv() returned Err: every sender is gone and the channel is empty.
WorkerDisconnected ==
    /\ wpc = "recv"
    /\ mono_chan = <<>>
    /\ ~tx_alive
    /\ wpc' = "finished"
    /\ UNCHANGED <<wkeywords, buffer, silence_samples, detection>>
    /\ UNCHANGED <<codec_vars, node_vars, capture_vars, chan_vars, slot_vars, log_vars>>

\* spotter.detect returned: a detection of one of the worker's keywords, or nothing
\* (Ok(None) or Err), or it panicked (its assert! and unwraps).
WorkerDetect ==
    /\ wpc = "detect"
    /\ \/ \E i \in 1..Len(wkeywords) :
             /\ detection' = Some(wkeywords[i], Len(detect_log))
             /\ wpc' = "lock"
             /\ UNCHANGED buffer
       \/ /\ detection' = None
          /\ wpc' = "guard"
          /\ buffer' = <<>>
       \/ /\ detection' = None
          /\ wpc' = "panicked"
          /\ UNCHANGED buffer
    /\ UNCHANGED <<wkeywords, silence_samples>>
    /\ UNCHANGED <<codec_vars, node_vars, capture_vars, chan_vars, slot_vars, log_vars>>

\* matches.lock().unwrap(): the worker gets the mutex.
WorkerLock ==
    /\ wpc = "lock"
    /\ lock = "none"
    /\ lock' = "worker"
    /\ wpc' = "publish"
    /\ UNCHANGED <<wkeywords, buffer, silence_samples, detection, matches>>
    /\ UNCHANGED <<codec_vars, node_vars, capture_vars, chan_vars, log_vars>>

\* WorkerPublish with a guard that outlives the assignment.
WorkerPublish_guard_kept ==
    /\ wpc = "publish"
    /\ matches' = publish(matches, detection)
    /\ slot_log' = Append(slot_log, [op |-> "publish", id |-> detection.id])
    /\ lock' = "worker"
    /\ detection' = None
    /\ buffer' = <<>>
    /\ wpc' = "guard"
    /\ UNCHANGED <<wkeywords, silence_samples>>
    /\ UNCHANGED <<relay_sent, speak_emitted, mono_sent, mono_received, cast_emitted,
                   detect_log, fed_all_silent>>
    /\ UNCHANGED <<codec_vars, node_vars, capture_vars, chan_vars>>

\* *guard = Some(detection.keyword.clone()); the guard is dropped; buffer.clear().
WorkerPublish ==
    /\ wpc = "publish"
    /\ matches' = publish(matches, detection)
    /\ slot_log' = Append(slot_log, [op |-> "publish", id |-> detection.id])
    /\ lock' = "none"
    /\ detection' = None
    /\ buffer' = <<>>
    /\ wpc' = "guard"
    /\ UNCHANGED <<wkeywords, silence_samples>>
    /\ UNCHANGED <<relay_sent, speak_emitted, mono_sent, mono_received, cast_emitted,
                   detect_log, fed_all_silent>>
    /\ UNCHANGED <<codec_vars, node_vars, capture_vars, chan_vars>>

Worker ==
    \/ WorkerInit
    \/ WorkerGuard
    \/ WorkerRecv
    \/ WorkerDisconnected
    \/ WorkerDetect
    \/ WorkerLock
    \/ WorkerPublish

(***************************************************************************)
(* whisper.rs: WhisperKeywordSpotter::detect.  The engine is an oracle: it *)
(* gives what state.full returned and the text of each segment.  A string  *)
(* is the sequence of its characters.                                      *)
(***************************************************************************)
MaxChars == 2        \* characters in a segment's text or in a keyword
MaxSegments == 2     \* segments of a transcription

\* char::to_lowercase on the letters of the model; a blank has no case.
lower_char(c) == IF c = "A" THEN "a" ELSE IF c = "B" THEN "b" ELSE c

\* str::to_lowercase.
to_lowercase(s) == [i \in 1..Len(s) |-> lower_char(s[i])]

\* str::trim: leading and trailing white space is removed.
RECURSIVE trim_start(_)
trim_start(s) == IF s # <<>> /\ Head(s) = " " THEN trim_start(Tail(s)) ELSE s

RECURSIVE trim_end(_)
trim_end(s) ==
    IF s # <<>> /\ s[Len(s)] = " " THEN trim_end(SubSeq(s, 1, Len(s) - 1)) ELSE s

trim(s) == trim_end(trim_start(s))

\* str::contains with a string pattern: the pattern occurs at some position.
contains(haystack, needle) ==
    \E at \in 0..(Len(haystack) - Len(needle)) :
        SubSeq(haystack, at + 1, at + Len(needle)) = needle

\* The loop over the segments: each text is pushed with a blank after it.
RECURSIVE push_segments(_)
push_segments(segments) ==
    IF segments = <<>> THEN <<>>
    ELSE Head(segments).text \o <<" ">> \o push_segments(Tail(segments))

\* The loop over the keywords: the first keyword whose lower-cased form the
\* transcription contains, or 0.
first_keyword(transcription, kws) ==
    LET hits == {i \in 1..Len(kws) : contains(transcription, to_lowercase(kws[i]))}
    IN  IF hits = {} THEN 0 ELSE CHOOSE i \in hits : \A j \in hits : i <= j

NoDetection == [some |-> FALSE, keyword |-> <<>>, transcription |-> <<>>]

\* detect with keywords compared as they were registered.
detect_case_sensitive(engine, kws) ==
    IF engine.full = "err" THEN [kind |-> "Err", detection |-> NoDetection]
    ELSE IF engine.full = "nonzero" THEN [kind |-> "panic", detection |-> NoDetection]
    ELSE IF \E i \in 1..Len(engine.segments) : ~engine.segments[i].utf8
    THEN [kind |-> "panic", detection |-> NoDetection]
    ELSE LET transcription == to_lowercase(trim(push_segments(engine.segments)))
             hits == {i \in 1..Len(kws) : contains(transcription, kws[i])}
         IN  IF transcription = <<>> \/ hits = {}
             THEN [kind |-> "Ok", detection |-> NoDetection]
             ELSE [kind |-> "Ok",
                   detection |-> [some |-> TRUE,
                                  keyword |-> kws[CHOOSE i \in hits : \A j \in hits : i <= j],
                                  transcription |-> transcription]]

\* detect: state.full(params, samples)? returns its error, assert!(result == 0) and
\* the unwraps on a segment panic; then the transcription is matched.
detect(engine, kws) ==
    IF engine.full = "err" THEN [kind |-> "Err", detection |-> NoDetection]
    ELSE IF engine.full = "nonzero" THEN [kind |-> "panic", detection |-> NoDetection]
    ELSE IF \E i \in 1..Len(engine.segments) : ~engine.segments[i].utf8
    THEN [kind |-> "panic", detection |-> NoDetection]
    ELSE LET transcription == to_lowercase(trim(push_segments(engine.segments)))
             first == first_keyword(transcription, kws)
         IN  IF transcription = <<>> \/ first = 0
             THEN [kind |-> "Ok", detection |-> NoDetection]
             ELSE [kind |-> "Ok",
                   detection |-> [some |-> TRUE,
                                  keyword |-> kws[first],
                                  transcription |-> transcription]]

\* The characters of the model: a letter in both cases, another letter, a blank.
Chars == {"a", "A", "b", " "}

Strings == UNION {[1..n -> Chars] : n \in 0..MaxChars}

\* What the engine gives: an error, a result other than 0, or segments, each with
\* its text or with bytes that are not UTF-8.
SegmentLists ==
    UNION {[1..n -> [text : Strings, utf8 : {TRUE}] \cup {[text |-> <<>>, utf8 |-> FALSE]}] :
              n \in 0..MaxSegments}

Engines ==
    {[full |-> "err", segments |-> <<>>], [full |-> "nonzero", segments |-> <<>>]}
    \cup {[full |-> "ok", segments |-> segs] : segs \in SegmentLists}

KeywordLists == UNION {[1..n -> Strings] : n \in 0..MaxSpells}

CallDetect ==
    /\ codec_call = NoCall
    /\ \E engine \in Engines, kws \in KeywordLists :
        /\ codec_call' = [fn |-> "detect", engine |-> engine, keywords |-> kws]
        /\ codec_ret' = detect(engine, kws)
        /\ UNCHANGED pipe_vars

(***************************************************************************)
(* The specifications.                                                     *)
(***************************************************************************)
\* The device configurations: channels and sample rate of the default input.
Configs == {[channels |-> ch, sample_rate |-> r] :
               ch \in {1, 2, 3, 4}, r \in {16000, 44100, 48000, 96000}}

StereoConfig == {[channels |-> 2, sample_rate |-> 48000]}

CodecInit ==
    /\ codec_call = NoCall
    /\ codec_ret = NoCall
    /\ PipeInit(StereoConfig)

CodecNext ==
    \/ CallEncodeStereoToOpus
    \/ CallEncodeStereoToOpusPackets
    \/ CallDecodeOpusToStereo
    \/ CallDecodeOpusPacketsToStereo
    \/ DecodeEncodedPackets
    \/ DecodeEncodedStream

SpecCodec == CodecInit /\ [][CodecNext]_vars

\* The capture callback alone, on every device configuration and on blocks of
\* arbitrary sizes: nothing, one sample, just under and just over a frame, several
\* frames at once.
CaptureLens == {0, 1, 2, 479, 480, 959, 960, 961, 1920, 2883, 3840}

CaptureInit ==
    /\ codec_call = NoCall
    /\ codec_ret = NoCall
    /\ PipeInit(Configs)

Capture ==
    \E data_len \in CaptureLens, fail_at \in 0..MaxCallbacks :
        InputCallback(data_len, 20, 0, fail_at)

CaptureNext ==
    \/ InitWhisper
    \/ Capture

SpecCapture == CaptureInit /\ [][CaptureNext]_vars

\* The worker and the owning thread, the worker fed with blocks of arbitrary sizes and loudness through the
\* mono channel: silent, at and just under the threshold, loud, loud with a silent
\* tail and silent with a loud tail.
MaxBlocks == 2       \* blocks sent to the worker

Amplitudes == {0, 2, 3, 20}

Blocks ==
    {<<>>}
    \cup {Run(n, v) : n \in {1, 512, 4096, 48000}, v \in Amplitudes}
    \cup {Run(3584, 20) \o Run(512, 0), Run(4000, 20) \o Run(96, 0),
          Run(4096, 0) \o Run(512, 4), Run(48000, 0) \o Run(512, 20),
          Run(4096, 0) \o Run(1, 20)}

\* tx.send(resampled) of the callback, with any of the blocks.
Feed(blocks) ==
    /\ tx_alive
    /\ wpc \notin {"finished", "panicked"}
    /\ Len(mono_sent) < MaxBlocks
    /\ \E bytes \in blocks :
          mono_chan' = Append(mono_chan, [seq |-> Len(mono_sent) + 1, bytes |-> bytes])
    /\ mono_sent' = Append(mono_sent, Len(mono_sent) + 1)
    /\ UNCHANGED <<tx_alive, relay_chan>>
    /\ UNCHANGED <<relay_sent, speak_emitted, mono_received, slot_log, cast_emitted,
                   detect_log, fed_all_silent>>
    /\ UNCHANGED <<codec_vars, node_vars, capture_vars, worker_vars, slot_vars>>

FeedMono == Feed(Blocks)

WorkerSpecInit ==
    /\ codec_call = NoCall
    /\ codec_ret = NoCall
    /\ PipeInit(StereoConfig)

WorkerNext ==
    \/ RegisterSpellTrigger(Triggers)
    \/ InitWhisper
    \/ FeedMono
    \/ Worker
    \/ Process

SpecWorker == WorkerSpecInit /\ [][WorkerNext]_vars

\* The whole pipeline, started once: the owning thread's calls, the capture callback
\* and the worker, interleaved.  The callback gets a short block (one frame) or a
\* block of 128 ms whose last 32 ms are silent.
PipeLens == {960, 12288}

PipeCapture ==
    \E data_len \in PipeLens, fail_at \in {0, 1} :
        InputCallback(data_len, 20, IF data_len = 960 THEN 0 ELSE 512, fail_at)

Init ==
    /\ codec_call = NoCall
    /\ codec_ret = NoCall
    /\ PipeInit(StereoConfig)

Next ==
    \/ RegisterSpellTrigger({"fire"})
    \/ InitWhisper
    \/ Process
    \/ PipeCapture
    \/ Worker

Spec == Init /\ [][Next]_vars

\* The two linear resamplers alone, on inputs of every length up to MaxSamples and
\* on every pair of rates.
MaxSamples == 24     \* samples of a resampler's input

ResampleRates == {8000, 16000, 44100, 48000, 96000}

CallResampleLinearStereo ==
    /\ codec_call = NoCall
    /\ \E n \in 0..MaxSamples, from_rate \in ResampleRates, to_rate \in ResampleRates :
          /\ codec_call' = [fn |-> "resample_linear_stereo", n |-> n,
                            from_rate |-> from_rate, to_rate |-> to_rate]
          /\ codec_ret' = [len |-> resample_linear_stereo_len(n, from_rate, to_rate)]
    /\ UNCHANGED pipe_vars

CallResampleLinear ==
    /\ codec_call = NoCall
    /\ \E n \in 0..MaxSamples, from_rate \in ResampleRates, to_rate \in ResampleRates :
          /\ codec_call' = [fn |-> "resample_linear", n |-> n,
                            from_rate |-> from_rate, to_rate |-> to_rate]
          /\ codec_ret' = [len |-> resample_linear_len(n, from_rate, to_rate)]
    /\ UNCHANGED pipe_vars

ResampleInit ==
    /\ codec_call = NoCall
    /\ codec_ret = NoCall
    /\ PipeInit(StereoConfig)

ResampleNext ==
    \/ CallResampleLinearStereo
    \/ CallResampleLinear

SpecResample == ResampleInit /\ [][ResampleNext]_vars

\* The capture session of a node: init_whisper called once or again, the callback
\* on blocks of half a frame, one frame and two frames, stop at any moment, and the owning
\* thread's ticks.
SessionLens == {480, 960, 1920}

SessionCapture ==
    \E data_len \in SessionLens, fail_at \in {0, 1} :
        InputCallback(data_len, 20, 0, fail_at)

SessionInit ==
    /\ codec_call = NoCall
    /\ codec_ret = NoCall
    /\ PipeInit(StereoConfig)

SessionNext ==
    \/ InitWhisper
    \/ InitWhisperAgain
    \/ SessionCapture
    \/ Stop
    \/ Process

SpecSession == SessionInit /\ [][SessionNext]_vars

\* Teardown: the worker fed with blocks while the runtime is freed and the
\* microphone is stopped at any moment, before or after the pipeline has started.
\* The blocks are silent or loud, short or as long as the hold or the minimum; one
\* is loud with a silent tail shorter than the hold, and one is a loud block that
\* 512 samples more bring to the minimum exactly.
SegmentBlocks ==
    {<<>>, Run(1, 20), Run(512, 0), Run(512, 20), Run(4096, 0), Run(4096, 20),
     Run(48000, 0), Run(48000, 20), Run(47488, 20), Run(512, 20) \o Run(512, 0)}

FeedSegment == Feed(SegmentBlocks)

ShutdownInit ==
    /\ codec_call = NoCall
    /\ codec_ret = NoCall
    /\ PipeInit(StereoConfig)

ShutdownNext ==
    \/ RegisterSpellTrigger({"fire"})
    \/ InitWhisper
    \/ FeedSegment
    \/ Worker
    \/ Free
    \/ Stop

SpecShutdown == ShutdownInit /\ [][ShutdownNext]_vars

\* The same with a worker thread that the scheduler does not starve.
SpecShutdownFair == SpecShutdown /\ WF_vars(Worker)

\* detect alone, on every transcription and every keyword list of the model.
DetectInit ==
    /\ codec_call = NoCall
    /\ codec_ret = NoCall
    /\ PipeInit(StereoConfig)

DetectNext == CallDetect

SpecDetect == DetectInit /\ [][DetectNext]_vars

(***************************************************************************)
(* Properties of the codec framer, checked under SpecCodec.                *)
(***************************************************************************)
IsDecode == codec_call.fn \in {"decode_opus_to_stereo", "decode_opus_packets_to_stereo"}

IsEncode == codec_call.fn \in {"encode_stereo_to_opus", "encode_stereo_to_opus_packets"}

\* The k-th block of frame_size * 2 samples of a decoded output.
OutputBlock(output, k, frame_size) ==
    SubSeq(output, (k - 1) * frame_size * 2 + 1, k * frame_size * 2)

\* Every packet of the call decoded to a full frame or failed to decode.
FullOrFailed ==
    \A k \in 1..Len(codec_ret.packets) :
        codec_call.dec[k] \in {DecErr, DecOk(codec_call.frame_size)}

\* The output is one block of frame_size * 2 samples per packet, in packet order:
\* the samples of packet k where it decoded, zeros where it failed.
BlockPerPacket ==
    /\ Len(codec_ret.output) = codec_call.frame_size * 2 * Len(codec_ret.packets)
    /\ \A k \in 1..Len(codec_ret.packets) :
          OutputBlock(codec_ret.output, k, codec_call.frame_size) =
              Repeat(codec_call.frame_size * 2,
                     IF codec_call.dec[k].ok THEN k ELSE 0)

\* C1 as stated: both decode entry points return Ok for every input, and when each
\* packet decodes to a full frame or fails, the output holds frame_size * 2 samples
\* per packet in packet order, zeros in the place of every failed packet.
C1_AlwaysOk ==
    IsDecode => /\ codec_ret.ok
                /\ FullOrFailed => BlockPerPacket

\* C1 amended: decode_opus_to_stereo returns Ok for every input;
\* decode_opus_packets_to_stereo returns Ok exactly when its decoder can be built
\* (a supported sample rate) and otherwise returns the construction error with no
\* output; whenever a decode returns Ok and each packet decoded to a full frame or
\* failed, the output holds frame_size * 2 samples per packet in packet order,
\* zeros in the place of every failed packet.
C1_PacketFailureNeverPropagates ==
    IsDecode =>
        /\ codec_call.fn = "decode_opus_to_stereo" => codec_ret.ok
        /\ codec_call.fn = "decode_opus_packets_to_stereo" =>
              /\ codec_ret.ok <=> codec_call.sample_rate \in {8000, 12000, 16000, 24000, 48000}
              /\ codec_ret.ok => codec_ret.packets = codec_call.packets
              /\ ~codec_ret.ok => codec_ret.output = <<>>
        /\ (codec_ret.ok /\ FullOrFailed) => BlockPerPacket

\* A failed packet followed by a packet that decoded to a full frame.
C1_Witness ==
    /\ IsDecode
    /\ codec_ret.ok
    /\ Len(codec_ret.packets) >= 2
    /\ codec_call.dec[1] = DecErr
    /\ codec_call.dec[2] = DecOk(codec_call.frame_size)
    /\ FullOrFailed

\* A tuple as it lies in a framed stream.
Framed(packet) == <<Len(packet) % 256, Len(packet) \div 256>> \o packet

FramedAll(packets) == Flatten([i \in 1..Len(packets) |-> Framed(packets[i])])

\* C2: decode_opus_to_stereo consumes exactly the maximal prefix of complete
\* (length, packet) tuples: it returns Ok without an out-of-bounds read, the tuples
\* it decoded are a prefix of the stream, what is left has fewer than 2 bytes or
\* declares more bytes than remain, and the output is made of one block per tuple
\* of that prefix and of nothing else.
C2_MaximalPrefixOfCompleteTuples ==
    codec_call.fn = "decode_opus_to_stereo" =>
        LET data   == codec_call.opus_data
            prefix == FramedAll(codec_ret.packets)
            rest   == SubSeq(data, Len(prefix) + 1, Len(data))
        IN  /\ codec_ret.ok /\ ~codec_ret.panic
            /\ Len(prefix) <= Len(data)
            /\ SubSeq(data, 1, Len(prefix)) = prefix
            /\ codec_ret.end = Len(prefix)
            /\ \/ Len(rest) < 2
               \/ rest[1] + 256 * rest[2] > Len(rest) - 2
            /\ codec_ret.output =
                  Flatten([k \in 1..Len(codec_ret.packets) |->
                              decoded_block(codec_call.dec[k], k, codec_call.frame_size)])

\* A complete tuple followed by a truncated one whose length was read.
C2_Witness ==
    /\ codec_call.fn = "decode_opus_to_stereo"
    /\ Len(codec_ret.packets) = 1
    /\ Len(codec_ret.packets[1]) = 1
    /\ Len(codec_call.opus_data) - codec_ret.end >= 2
    /\ Len(codec_ret.output) > 0

\* The frame sizes of 2.5, 5, 10, 20, 40 and 60 ms at a rate.
LegalFrameSizes(rate) ==
    {(rate * 25) \div 10000, (rate * 5) \div 1000, (rate * 10) \div 1000,
     (rate * 20) \div 1000, (rate * 40) \div 1000, (rate * 60) \div 1000}

ValidEncodeInput ==
    /\ codec_call.sample_rate \in {8000, 12000, 16000, 24000, 48000}
    /\ codec_call.frame_size \in LegalFrameSizes(codec_call.sample_rate)
    /\ codec_call.stereo_len % 2 = 0

\* C3: both encode entry points fail before any encode_float call, with no output,
\* exactly when the rate is not one of the five, or the frame size is not one of
\* the rate's 2.5/5/10/20/40/60 ms sizes, or the length is odd; validation passes
\* for every other input.
C3_ValidationRejectsExactlyInvalid ==
    IsEncode =>
        /\ (~codec_ret.ok /\ codec_ret.calls = 0) <=> ~ValidEncodeInput
        /\ ~ValidEncodeInput => /\ codec_ret.output = <<>>
                                /\ codec_ret.packets = <<>>
                                /\ codec_ret.frames = <<>>
        /\ (validate_input(codec_call.stereo_len, codec_call.sample_rate,
                           codec_call.frame_size) = "Ok") <=> ValidEncodeInput

\* A supported rate with a frame size that is legal only at another rate.
C3_Witness ==
    /\ IsEncode
    /\ codec_call.sample_rate = 48000
    /\ codec_call.frame_size = 60
    /\ codec_call.stereo_len = 240
    /\ ~codec_ret.ok

\* C4: for a valid input of n samples the i-th encode_float call gets the slice
\* [(i-1)*frame_size*2, i*frame_size*2) of the input, a successful encode makes
\* exactly n div (frame_size*2) calls and emits their packets in order, no call
\* gets a partial or padded chunk, and both variants hand the same frames over.
C4_WholeFramesInOrder ==
    (IsEncode /\ ValidEncodeInput) =>
        LET spf == codec_call.frame_size * 2
            n   == codec_call.stereo_len
            enc == codec_call.enc
        IN  /\ \A i \in 1..Len(codec_ret.frames) :
                  codec_ret.frames[i] =
                      [first |-> (i - 1) * spf + 1, last |-> i * spf, n |-> spf]
            /\ Len(codec_ret.frames) <= n \div spf
            /\ codec_ret.ok =>
                  /\ codec_ret.calls = n \div spf
                  /\ Len(codec_ret.frames) = n \div spf
                  /\ codec_call.fn = "encode_stereo_to_opus_packets" =>
                        codec_ret.packets = [i \in 1..(n \div spf) |-> enc[i].bytes]
                  /\ codec_call.fn = "encode_stereo_to_opus" =>
                        codec_ret.output =
                            FramedAll([i \in 1..(n \div spf) |-> enc[i].bytes])
            /\ encode_stereo_to_opus(Stereo(n), codec_call.sample_rate,
                                     codec_call.frame_size, enc).frames
               = encode_stereo_to_opus_packets(Stereo(n), codec_call.sample_rate,
                                               codec_call.frame_size, enc).frames

\* Two whole frames encoded and a trailing partial chunk dropped.
C4_Witness ==
    /\ IsEncode
    /\ codec_ret.ok
    /\ codec_ret.calls = 2
    /\ codec_call.stereo_len = 2 * codec_call.frame_size * 2 + 2

\* C5: the packets encoded from k whole stereo frames at a supported rate R and a
\* legal frame size F decode, with the same R and F, to exactly k*F*2 samples.
C5_RoundTripLength ==
    (/\ codec_call.fn = "decode_opus_packets_to_stereo"
     /\ codec_call.from_encoder
     /\ codec_call.stereo_len % (codec_call.frame_size * 2) = 0) =>
        /\ codec_call.sample_rate \in {8000, 12000, 16000, 24000, 48000}
        /\ codec_call.frame_size \in LegalFrameSizes(codec_call.sample_rate)
        /\ codec_ret.ok
        /\ Len(codec_ret.output) = codec_call.stereo_len

\* Two whole frames went through the encoder and the decoder.
C5_Witness ==
    /\ codec_call.fn = "decode_opus_packets_to_stereo"
    /\ codec_call.from_encoder
    /\ codec_call.stereo_len = 2 * codec_call.frame_size * 2
    /\ Len(codec_ret.output) > 0

RECURSIVE TupleStart(_, _)
TupleStart(packets, i) ==
    IF i = 1 THEN 0 ELSE TupleStart(packets, i - 1) + 2 + Len(packets[i - 1])

\* C6: the stream written by encode_stereo_to_opus for packets of at most 4000
\* bytes re-splits losslessly: each 2-byte little-endian prefix is the exact length
\* of its packet, and the tuple parser recovers the same packets in the same order
\* and leaves no byte over.
C6_FramedStreamResplits ==
    (codec_call.fn = "decode_opus_to_stereo" /\ codec_call.from_encoder) =>
        LET data == codec_call.opus_data
            made == codec_call.encoded
        IN  /\ \A i \in 1..Len(made) :
                  /\ Len(made[i]) <= EncodedBufLen
                  /\ TupleStart(made, i) + 2 <= Len(data)
                  /\ data[TupleStart(made, i) + 1] + 256 * data[TupleStart(made, i) + 2]
                        = Len(made[i])
            /\ codec_ret.packets = made
            /\ codec_ret.end = Len(data)

\* A stream of two packets, the first filling the encoder's whole buffer.
C6_Witness ==
    /\ codec_call.fn = "decode_opus_to_stereo"
    /\ codec_call.from_encoder
    /\ Len(codec_call.encoded) = 2
    /\ Len(codec_call.encoded[1]) = EncodedBufLen
    /\ Len(codec_call.encoded[2]) = 256
    /\ Len(codec_ret.packets) = 2

(***************************************************************************)
(* The capture callback's re-framing.                                      *)
(***************************************************************************)
samples_per_frame == OPUS_FRAME_SIZE * config.channels

\* The relay messages are the whole frames of the resampled stream, in order, and the
\* accumulation buffer is what is left of the stream after them.
Reframed ==
    /\ IdsIn(local_buffer) < samples_per_frame
    /\ Len(relay_sent) = resampled_total \div samples_per_frame
    /\ \A i \in 1..Len(relay_sent) :
          relay_sent[i] = [first |-> (i - 1) * samples_per_frame + 1,
                           n |-> samples_per_frame,
                           consecutive |-> TRUE]
    /\ Ids(local_buffer) = [i \in 1..(resampled_total % samples_per_frame) |->
                               Len(relay_sent) * samples_per_frame + i]

\* C7 (as claimed): after every invocation of the capture callback the accumulation
\* buffer holds fewer than OPUS_FRAME_SIZE * channels samples, the number of relay
\* messages sent is floor(total resampled samples / samples_per_frame), the frames are
\* consecutive, non-overlapping slices of the resampled stream in order and the
\* remainder is left in the buffer.  It fails in the invocation whose encoder returns
\* an error: the frame was drained, the callback panics before sending it.
C7_ReframingConservesSamples == Reframed

\* C7: what the callback keeps as long as no encode has failed.
C7_ReframedWhileEncoderSucceeds == cb_state = "ok" => Reframed

\* C7: the invocation that loses a frame: it panicked with more than a frame's worth
\* of samples behind it and fewer messages than whole frames.
C7_FrameLost ==
    /\ cb_state = "panicked"
    /\ Len(relay_sent) < resampled_total \div samples_per_frame
    /\ IdsIn(local_buffer) >= samples_per_frame

\* C7: several frames sent by one invocation, with a remainder kept.
C7_Reframed_Witness ==
    /\ cb_state = "ok"
    /\ callbacks = 2
    /\ Len(relay_sent) >= 3
    /\ local_buffer # <<>>
    /\ config.sample_rate = 44100

(***************************************************************************)
(* The channels.                                                           *)
(***************************************************************************)
Queued(chan, field) == [i \in 1..Len(chan) |-> chan[i][field]]

\* C8: channel ordering is FIFO on both paths under any interleaving of the capture
\* callback, the worker and the owning thread: what the worker has received are the
\* first mono blocks sent, in the order sent, and the rest is queued in that order;
\* what process() has emitted through speak are the first packets sent to the relay,
\* in the order sent, the rest queued in that order; and a tick of process() emits at
\* most one packet.
C8_FifoOnBothChannels ==
    /\ [](mono_sent = mono_received \o Queued(mono_chan, "seq"))
    /\ [](relay_sent = speak_emitted \o Queued(relay_chan, "frame"))
    /\ [][Len(speak_emitted') <= Len(speak_emitted) + 1]_vars

\* C8: both paths in use at once: two blocks received by the worker, packets emitted
\* and packets still queued behind them.
C8_Witness ==
    /\ Len(mono_received) = 2
    /\ Len(speak_emitted) >= 2
    /\ Len(relay_chan) >= 2

(***************************************************************************)
(* The Match Slot.                                                         *)
(***************************************************************************)
\* C9: the Match Slot is a one-value overwrite mailbox.  It holds a value exactly when
\* the last thing done to it was a publish, and then the value of that publish; every
\* read that takes a value takes the one published just before it, so that of two
\* detections published with no read in between only the second is ever taken, and
\* none is taken twice; every cast event comes from one such read, and no two cast
\* events from the same detection.
C9_MatchSlotMailbox ==
    /\ matches.some <=> (slot_log # <<>> /\ slot_log[Len(slot_log)].op = "publish")
    /\ matches.some => matches.id = slot_log[Len(slot_log)].id
    /\ \A i \in DOMAIN slot_log :
          slot_log[i].op = "take" =>
              /\ i > 1
              /\ slot_log[i - 1] = [op |-> "publish", id |-> slot_log[i].id]
    /\ \A i \in DOMAIN cast_emitted :
          \E t \in DOMAIN slot_log : slot_log[t] = [op |-> "take", id |-> cast_emitted[i].id]
    /\ \A i, j \in DOMAIN cast_emitted : i # j => cast_emitted[i].id # cast_emitted[j].id

\* C9: two detections published with no read in between, then a read, and a cast.
C9_Witness ==
    /\ \E i \in DOMAIN slot_log :
          /\ i + 2 \in DOMAIN slot_log
          /\ slot_log[i].op = "publish"
          /\ slot_log[i + 1].op = "publish"
          /\ slot_log[i + 2].op = "take"
    /\ cast_emitted # <<>>

(***************************************************************************)
(* The worker's segmentation.                                              *)
(***************************************************************************)
\* C10: the transcription engine is never called on silence: every call to detect gets
\* the worker's buffer, which is not empty and whose RMS over the whole of it is at or
\* above the silence threshold; and as long as every block received was silent no
\* call is made, and the buffer is discarded before it reaches the minimum length.
C10_NeverTranscribesSilence ==
    /\ \A i \in DOMAIN detect_log :
          /\ SamplesIn(detect_log[i].samples) > 0
          /\ ~RmsBelow(detect_log[i].samples, silence_threshold)
          /\ ~detect_log[i].all_silent
    /\ wpc = "detect" => detect_log # <<>> /\ buffer = detect_log[Len(detect_log)].samples
    /\ fed_all_silent => detect_log = <<>> /\ SamplesIn(buffer) < min_buffer

\* C10: detect is called, after two blocks, on a buffer that ends in silence.
C10_Witness ==
    /\ wpc = "detect"
    /\ buffer[Len(buffer)].v = 0
    /\ Len(mono_received) = 2

(***************************************************************************)
(* Properties of the worker's segmentation, checked under SpecShutdown and *)
(* SpecShutdownFair.                                                       *)
(***************************************************************************)
\* The worker is in its loop.
InLoop == wpc \in {"guard", "recv", "detect", "lock", "publish"}

\* A loud tone: there are samples, and each of them is at or above the threshold.
Loud(samples) ==
    /\ samples # <<>>
    /\ \A i \in 1..Len(samples) : samples[i].v >= silence_threshold

\* The worker receives a block in this step.
Receives == mono_received' # mono_received

\* The blocks in flight to the worker, one after the other.
RECURSIVE InFlight(_)
InFlight(chan) == IF chan = <<>> THEN <<>> ELSE Head(chan).bytes \o InFlight(Tail(chan))

\* C11: blocks of a loud tone fed to a running worker, at least the minimum buffer
\* in total, lead to a transcription call; and the call is made in the very step
\* that receives the block with which the buffer reaches the minimum, on the whole
\* accumulated buffer.
C11_LoudToneIsTranscribed ==
    /\ (/\ InLoop
        /\ detect_log = <<>>
        /\ Loud(buffer \o InFlight(mono_chan))
        /\ SamplesIn(buffer \o InFlight(mono_chan)) >= min_buffer)
          ~> (detect_log # <<>>)
    /\ [][(/\ Receives
           /\ Loud(buffer \o Head(mono_chan).bytes)
           /\ SamplesIn(buffer \o Head(mono_chan).bytes) >= min_buffer)
          => /\ wpc' = "detect"
             /\ detect_log' = Append(detect_log,
                                     [samples |-> buffer \o Head(mono_chan).bytes,
                                      all_silent |-> FALSE])]_vars

\* Two loud blocks were received, the second one brought the buffer to the minimum
\* exactly, and the worker is in the transcription call.
C11_Witness ==
    /\ Len(mono_received) = 2
    /\ wpc = "detect"
    /\ Len(buffer) = 2
    /\ Loud(buffer)
    /\ SamplesIn(buffer) = min_buffer

\* The worker leaves its loop at the guard when it loads true from the flag.
Cancelled == running

\* C12: once Runtime::free() has been called the flag is in its cancelled state, and
\* a worker that evaluates its loop condition from then on leaves the loop, whatever
\* the state of the mono channel.
C12_FreeCancelsTheWorker ==
    /\ [](freed => Cancelled)
    /\ [][freed /\ wpc = "guard" /\ wpc' # wpc => wpc' = "finished"]_vars

\* What the code does instead: the runtime has been freed, the worker has evaluated
\* its loop condition since and waits for a block on an open, empty channel.
C12_FreedAndStillWaiting ==
    /\ freed
    /\ ~Cancelled
    /\ wpc = "recv"
    /\ mono_chan = <<>>
    /\ tx_alive

\* The block the worker receives in a step that Receives.
Block == Head(mono_chan).bytes

\* The last silence_check_tail samples of the block, or all of it if it is shorter.
Tail512 == IF SamplesIn(Block) > silence_check_tail
           THEN LastSamples(Block, silence_check_tail) ELSE Block

\* The silence counter after the block: it grows by the block's length when the
\* block's tail is silent and starts again at zero when it is not.
Counted == IF RmsBelow(Tail512, silence_threshold)
           THEN silence_samples + SamplesIn(Block) ELSE 0

\* The silence-hold fires on the block: the counter reached the hold with a
\* non-empty buffer.
HoldFired == Counted >= silence_hold /\ SamplesIn(buffer \o Block) > 0

\* C13: a transcription is attempted only with a buffer of at least 16000*3 samples
\* or when the silence-hold fired on the block just received; when neither is the
\* case the block is only appended to the buffer and the worker waits again.
C13_MinimumBufferPolicy ==
    [][Receives =>
          /\ wpc' = "detect" => SamplesIn(buffer \o Block) >= min_buffer \/ HoldFired
          /\ SamplesIn(buffer \o Block) < min_buffer /\ ~HoldFired
                => /\ buffer' = buffer \o Block
                   /\ wpc' = "guard"
                   /\ detect_log' = detect_log]_vars

\* A transcription attempted below the minimum because the hold fired, after a block
\* that was only appended: loud samples, then a block of silence as long as the hold.
C13_Witness ==
    /\ wpc = "detect"
    /\ Len(mono_received) = 2
    /\ Len(detect_log) = 1
    /\ SamplesIn(buffer) < min_buffer
    /\ SamplesIn(buffer) > silence_hold
    /\ silence_samples = 0

\* The step ends a transcription attempt: detect returned without a match (Ok(None)
\* or Err), or the match was published.
AttemptEnds == wpc \in {"detect", "publish"} /\ wpc' = "guard"

\* The step discards an all-silence buffer: the buffer passed the gate with the
\* block just received and is silent as a whole.
Discards ==
    /\ Receives
    /\ SamplesIn(buffer \o Block) >= min_buffer \/ HoldFired
    /\ RmsBelow(buffer \o Block, silence_threshold)

\* C14: after every transcription attempt and after every discarded all-silence
\* buffer the worker is back at waiting with an empty voice buffer and a silence
\* counter of zero.
C14_ClearedAndResetAfterAttempt ==
    [][AttemptEnds \/ Discards
          => wpc' = "guard" /\ buffer' = <<>> /\ silence_samples' = 0]_vars

\* What the code does instead: a transcription attempted on the minimum-buffer path
\* is over, the buffer is empty and the silence counter still counts the silent
\* tail of the block before.
C14_CounterKeptAfterAttempt ==
    /\ wpc = "guard"
    /\ Len(detect_log) = 1
    /\ Len(mono_received) = 2
    /\ mono_chan = <<>>
    /\ buffer = <<>>
    /\ silence_samples > 0

(***************************************************************************)
(* Properties of detect, checked under SpecDetect.                         *)
(***************************************************************************)
IsDetect == codec_call.fn = "detect"

\* The engine transcribed: no error, result 0, and every segment's text is UTF-8.
Transcribed ==
    /\ codec_call.engine.full = "ok"
    /\ \A i \in 1..Len(codec_call.engine.segments) : codec_call.engine.segments[i].utf8

\* The trimmed, lower-cased transcript of the segments, each followed by a blank.
Transcript == to_lowercase(trim(push_segments(codec_call.engine.segments)))

\* needle is a substring of haystack: haystack is needle between a prefix and a
\* suffix of haystack.
IsSubstring(needle, haystack) ==
    \E i, j \in 0..Len(haystack) :
        haystack = SubSeq(haystack, 1, i) \o needle \o SubSeq(haystack, j + 1, Len(haystack))

\* The registered keywords that the transcript contains, case ignored.
Matching ==
    {i \in 1..Len(codec_call.keywords) :
        IsSubstring(to_lowercase(codec_call.keywords[i]), Transcript)}

\* C15: detect returns a detection exactly when the trimmed, lower-cased transcript
\* is non-empty and contains the lower-cased form of a registered keyword as a
\* substring; the keyword reported is the first such keyword in registration order.
C15_CaseInsensitiveSubstringMatch ==
    IsDetect =>
        IF Transcribed /\ Transcript # <<>> /\ Matching # {}
        THEN /\ codec_ret.kind = "Ok"
             /\ codec_ret.detection.some
             /\ \E i \in Matching :
                   /\ \A j \in Matching : i <= j
                   /\ codec_ret.detection.keyword = codec_call.keywords[i]
        ELSE ~codec_ret.detection.some

\* A keyword registered in upper case is reported for a transcript that has it in
\* lower case inside a longer word, before a second keyword that matches as well.
C15_Witness ==
    /\ IsDetect
    /\ codec_call.keywords = <<<<"A">>, <<"b">>>>
    /\ Transcript = <<"b", "a">>
    /\ codec_ret.detection.some
    /\ codec_ret.detection.keyword = <<"A">>

(***************************************************************************)
(* Properties of the capture callback's failure handling and of its sends, *)
(* checked under SpecCapture.                                              *)
(***************************************************************************)
\* C16: an encoder error inside the capture callback never unwinds through the
\* callback: no invocation ends by a panic.
C16_CallbackNeverUnwinds == cb_state # "panicked"

\* What the code does instead: the first invocation panicked on an encoder error,
\* nothing was relayed and no mono block was sent for it.
C16_UnwoundOnEncoderError ==
    /\ cb_state = "panicked"
    /\ callbacks = 1
    /\ relay_sent = <<>>
    /\ mono_sent = <<>>

\* C17: the capture callback never waits for its consumers.  While the stream runs
\* an invocation can always be made, whatever is queued and with the worker and the
\* owning thread receiving nothing at all; every message sent so far is queued.
C17_CallbackNeverWaits ==
    /\ stream = "Some" /\ cb_state = "ok" /\ callbacks < MaxCallbacks => ENABLED Capture
    /\ cb_state = "ok" =>
          /\ Len(mono_chan) = callbacks
          /\ Len(relay_chan) = resampled_total \div samples_per_frame

\* Two invocations completed while nothing was received: both mono blocks and eight
\* relay messages or more are queued.
C17_Witness ==
    /\ callbacks = 2
    /\ cb_state = "ok"
    /\ wpc = "spawned"
    /\ Len(mono_chan) = 2
    /\ Len(relay_chan) >= 8
    /\ speak_emitted = <<>>

(***************************************************************************)
(* Properties of the Match Slot's lock, checked under SpecWorker.          *)
(***************************************************************************)
\* C18: the worker holds the lock of the Match Slot only to assign the keyword it
\* publishes, never during the transcription call; a process() tick made during a
\* transcription gets the lock and takes the pending value, if there is one.
C18_LockHeldOnlyToPublish ==
    /\ [](lock = "worker" => wpc = "publish")
    /\ [][wpc = "detect" /\ Process
            => /\ matches' = None
               /\ matches.some
                     => slot_log' = Append(slot_log, [op |-> "take", id |-> matches.id])]_vars

\* A keyword was published, the worker is in its second transcription call and the
\* owning thread took the keyword in the meantime.
C18_Witness ==
    /\ wpc = "detect"
    /\ lock = "none"
    /\ Len(detect_log) = 2
    /\ matches = None
    /\ slot_log = <<[op |-> "publish", id |-> 1], [op |-> "take", id |-> 1]>>

(***************************************************************************)
(* Properties of the worker's termination, checked under SpecShutdownFair. *)
(***************************************************************************)
\* The worker's thread has ended.
Ended == wpc \in {"finished", "panicked"}

\* C19: when every sender of the mono channel has been dropped, a worker in its loop
\* ends: it never waits forever on the closed channel.  It leaves the loop only at
\* a receive that reports disconnection, with every block that was sent received,
\* in order; otherwise it ends by a panic inside the transcription call.
C19_EndsOnDisconnection ==
    /\ (InLoop /\ ~tx_alive) ~> Ended
    /\ [][InLoop /\ wpc' = "finished"
            => /\ wpc = "recv"
               /\ ~tx_alive
               /\ mono_chan = <<>>
               /\ mono_received = mono_sent]_vars
    /\ [][InLoop /\ wpc' = "panicked" => wpc = "detect"]_vars

\* C19 as claimed: with every sender dropped, a worker in its loop eventually leaves
\* the loop by the disconnection.
C19_AlwaysExitsCleanly == (InLoop /\ ~tx_alive) ~> (wpc = "finished")

\* The microphone was stopped, the worker received both blocks, called detect and
\* left its loop on the disconnection.
C19_Witness ==
    /\ wpc = "finished"
    /\ stream = "None"
    /\ ~tx_alive
    /\ mono_chan = <<>>
    /\ mono_received = <<1, 2>>
    /\ detect_log # <<>>

(***************************************************************************)
(* Properties of the relay messages, checked under SpecCapture.            *)
(***************************************************************************)
\* A decoder that decodes each of n packets to a full frame.
FullFrames(n) == [k \in 1..n |-> DecOk(OPUS_FRAME_SIZE)]

\* The relay message is a Framed Stream of exactly one tuple that encodes all the
\* samples of the drained frame, and decode_audio returns 480*2 samples for it.
OneWholeFrame(msg) ==
    /\ Len(Tuples(msg.bytes)) = 1
    /\ msg.frame.n = OPUS_FRAME_SIZE * 2
    /\ Len(decode_audio(msg.bytes, FullFrames(Len(Tuples(msg.bytes))))) = OPUS_FRAME_SIZE * 2

\* C20: on every device channel count, each relay message the capture callback sent
\* holds exactly one tuple that encodes the whole drained frame, and decode_audio
\* returns exactly 480*2 samples for it.
C20_OneWholeFramePerMessage ==
    \A i \in 1..Len(relay_chan) : OneWholeFrame(relay_chan[i])

\* What the code does instead on a mono device: a frame of 480 samples was drained
\* and the message sent for it is empty.
C20_EmptyRelayMessage ==
    /\ config.channels = 1
    /\ relay_chan # <<>>
    /\ relay_chan[1].bytes = <<>>
    /\ relay_chan[1].frame.n = OPUS_FRAME_SIZE

(***************************************************************************)
(* Properties of init_whisper and of the capture session, checked under    *)
(* SpecShutdownFair, SpecWorker and SpecSession.                           *)
(***************************************************************************)
\* C21: when Microphone::start fails in init_whisper the pipeline does not start:
\* the error is reported, no stream is stored, the senders given to start are
\* dropped (the relay sender was taken out of the node), no callback runs and no
\* block is ever sent; the worker that was spawned before ends, without a
\* transcription call.
C21_FailedStartStartsNothing ==
    /\ [](start_error =>
             /\ stream = "None"
             /\ sender = "None"
             /\ ~tx_alive
             /\ callbacks = 0
             /\ mono_sent = <<>>
             /\ relay_sent = <<>>
             /\ wpc # "not started"
             /\ detect_log = <<>>)
    /\ start_error ~> (Ended /\ detect_log = <<>>)

\* The start failed and the worker, which had loaded its model and entered its
\* loop, left it on the disconnection.
C21_Witness ==
    /\ start_error
    /\ stream = "None"
    /\ wpc = "finished"
    /\ mono_received = <<>>
    /\ detect_log = <<>>

\* C22: process() never waits for the worker.  A tick keeps the handle of a worker
\* that is still running; the first tick after the worker has ended, by return or
\* by panic, joins it without panicking and leaves the handle empty, and no later
\* tick finds a handle again.
C22_WorkerJoinedOnceFinished ==
    /\ [](ENABLED Process)
    /\ [][Process =>
            /\ whisper_thread = "Some" /\ ~Ended => whisper_thread' = "Some"
            /\ whisper_thread = "Some" /\ Ended
                  => whisper_thread' = "None" /\ node_panic' = node_panic
            /\ whisper_thread = "None" => whisper_thread' = "None"]_vars
    /\ [][whisper_thread = "None" /\ wpc # "not started" => whisper_thread' = "None"]_vars

\* The worker panicked and a tick joined it: the handle is empty and the node did
\* not panic.
C22_Witness ==
    /\ wpc = "panicked"
    /\ whisper_thread = "None"
    /\ ~node_panic
    /\ detect_log # <<>>

(***************************************************************************)
(* Properties of the linear resamplers, checked under SpecResample.        *)
(***************************************************************************)
IsResample == codec_call.fn \in {"resample_linear_stereo", "resample_linear"}

\* The frames of the input and of the output: two samples a frame for the stereo
\* resampler, one for the mono resampler.
InputFrames ==
    IF codec_call.fn = "resample_linear_stereo" THEN codec_call.n \div 2 ELSE codec_call.n

OutputFrames ==
    IF codec_call.fn = "resample_linear_stereo" THEN codec_ret.len \div 2 ELSE codec_ret.len

\* k is a / b rounded to the nearest integer, a half rounded up.
IsRounded(k, a, b) == 2 * k * b - b <= 2 * a /\ 2 * a < 2 * k * b + b

\* C23: each of the two linear resamplers returns round(input_frames * to_rate /
\* from_rate) frames, for every input length and every pair of differing rates.
C23_RoundedOutputLength ==
    IsResample /\ codec_call.from_rate # codec_call.to_rate
        => IsRounded(OutputFrames, InputFrames * codec_call.to_rate, codec_call.from_rate)

\* The stereo resampler alone returns the rounded number of frames.
C23_StereoRounded ==
    codec_call.fn = "resample_linear_stereo" /\ codec_call.from_rate # codec_call.to_rate
        => IsRounded(OutputFrames, InputFrames * codec_call.to_rate, codec_call.from_rate)

\* What the code does instead: the mono resampler returned no sample for two
\* samples at 44100 Hz resampled to 16000 Hz, where 2 * 16000 / 44100 rounds to 1.
C23_MonoTruncated ==
    /\ codec_call.fn = "resample_linear"
    /\ codec_call.n = 2
    /\ codec_call.from_rate = 44100
    /\ codec_call.to_rate = 16000
    /\ codec_ret.len = 0

\* C24: stop on a streaming session takes the stream away, and with it the
\* callback and its senders; without a stream no callback runs and no mono block
\* or relay message is produced; stop without a stream changes nothing; and once
\* init_whisper has been called, a session without a stream never gets one again.
C24_SessionStateMachine ==
    /\ [](stream = "Some" => ENABLED <<Stop>>_vars)
    /\ [](stream = "None" => ~ENABLED <<Stop>>_vars)
    /\ [][Stop => stream' = "None" /\ ~tx_alive']_vars
    /\ [][stream = "None"
            => /\ callbacks' = callbacks
               /\ mono_sent' = mono_sent
               /\ relay_sent' = relay_sent
               /\ wpc # "not started" => stream' = "None"]_vars

\* The session was stopped after a callback that relayed a frame and sent a block.
C24_Witness ==
    /\ stream = "None"
    /\ ~start_error
    /\ wpc # "not started"
    /\ callbacks = 1
    /\ Len(relay_sent) = 1
    /\ mono_sent = <<1>>
    /\ ~tx_alive

\* C25: at the moment each frame is encoded, the encoder of the live-capture path
\* carries the voice signal hint and the encoder of the packet path the music hint,
\* while bitrate and bandwidth are the same fixed values at both.  The code sets
\* the music hint at both call sites, so this fails as soon as the callback has
\* encoded a frame.
C25_VoiceHintOnCapturePath ==
    relay_sent # <<>> =>
        /\ encoder.signal = "Voice"
        /\ packets_encoder.signal = "Music"
        /\ encoder.bitrate = "Bits(128000)" /\ packets_encoder.bitrate = encoder.bitrate
        /\ encoder.bandwidth = "Fullband" /\ packets_encoder.bandwidth = encoder.bandwidth

\* What the code does: only the application differs between the two encoders.
C25_MusicHintAtBothSites ==
    relay_sent # <<>> =>
        /\ encoder = encoder_configured(Encoder_new("Voip"))
        /\ encoder.signal = packets_encoder.signal
        /\ encoder.application # packets_encoder.application

\* C26: the shared runtime flag is false in every reachable state (it is created
\* false and Runtime::free stores false), so that the worker's loop guard holds at
\* every evaluation: the worker never leaves its loop on the guard, and a fresh
\* worker that was never cancelled goes on to wait for its first block.
C26_FlagAlwaysFalse ==
    /\ [](running = FALSE)
    /\ [][Free => running' = FALSE]_vars
    /\ [][WorkerGuard => wpc' = "recv"]_vars
    /\ [][wpc = "guard" /\ ~freed /\ mono_received = <<>> =>
              wpc' \in {"guard", "recv"}]_vars

\* The guard was evaluated after Runtime::free and after a transcription, and the
\* worker waits again.
C26_Witness ==
    /\ freed /\ ~running
    /\ wpc = "recv"
    /\ Len(detect_log) = 1
    /\ buffer = <<>>

\* C27: each time the worker waits for the next block, whatever blocks it received
\* so far, the voice buffer holds fewer than 16000*3 samples and the silence counter
\* is below the hold value 4096; a buffer that reaches the minimum is cleared
\* (transcribed or discarded) within the processing of the block that made it
\* reach it.
C27_LoopHeadInvariant ==
    /\ [](wpc \in {"guard", "recv"} =>
             /\ SamplesIn(buffer) < min_buffer
             /\ silence_samples < silence_hold)
    /\ [][WorkerRecv /\ SamplesIn(buffer \o recv(mono_chan).msg.bytes) >= min_buffer =>
              \/ buffer' = <<>>                                    \* discarded
              \/ wpc' = "detect" /\ detect_log'[Len(detect_log')].samples = buffer'
         ]_vars
    /\ [][(wpc \in {"detect", "lock", "publish"}) /\ wpc' = "guard" => buffer' = <<>>]_vars

\* A first block reached the minimum and was transcribed; a second, silent one is
\* kept and counted, and the worker waits for the next.
C27_Witness ==
    /\ wpc = "recv"
    /\ Len(mono_received) = 2
    /\ Len(detect_log) = 1 /\ SamplesIn(detect_log[1].samples) >= min_buffer
    /\ SamplesIn(buffer) = 512
    /\ silence_samples = 512

\* C28: the spellbook lookup of process() never fails: whatever the interleaving of
\* register_spell_trigger, init_whisper, the worker's publications and the ticks,
\* every non-empty keyword that process() takes from the match slot is a key of the
\* spellbook at that moment, because the worker's keywords are a snapshot of
\* registered keywords and spellbook entries are never removed.
C28_SpellbookLookupNeverFails ==
    /\ [](~node_panic)
    /\ [](\A i \in 1..Len(wkeywords) : wkeywords[i] \in DOMAIN spellbook)
    /\ [](matches.some => matches.keyword \in DOMAIN spellbook)
    /\ [][DOMAIN spellbook \subseteq DOMAIN spellbook']_vars
    /\ [][Process /\ lock = "none" /\ matches.some /\ matches.keyword # "" =>
              /\ matches.keyword \in DOMAIN spellbook
              /\ cast_emitted' = Append(cast_emitted,
                                        [spell |-> spellbook[matches.keyword],
                                         id |-> matches.id])]_vars

\* A keyword registered before init_whisper was detected, taken and cast, while
\* another trigger was registered after the worker's snapshot.
C28_Witness ==
    /\ Len(cast_emitted) = 1
    /\ Len(wkeywords) = 1
    /\ Len(keywords) = 2
    /\ ~node_panic

\* C29: init_whisper starts the pipeline at most once per node: the first call
\* moves the relay sender out of the node and nothing restores it, so at most one
\* capture stream is ever connected to the relay receiver; a later call (also one
\* after a failed first call) builds no stream and aborts at the sender hand-off,
\* after it has spawned another worker and replaced the tracked thread handle.
C29_StartsAtMostOnce ==
    /\ [][sender = "None" => sender' = "None"]_vars
    /\ [][stream # "Some" /\ stream' = "Some" => sender = "Some" /\ sender' = "None"]_vars
    /\ [](wpc # "not started" => sender = "None")
    /\ [](wpc # "not started" /\ ~node_panic => ENABLED InitWhisperAgain)
    /\ [][InitWhisperAgain =>
              /\ whisper_thread' = "Second"
              /\ node_panic'
              /\ stream' = stream /\ encoder' = encoder
              /\ tx_alive' = tx_alive /\ mono_chan' = mono_chan /\ relay_chan' = relay_chan
         ]_vars

\* init_whisper was called again after a first call whose start failed: the handle
\* is the second worker's, the call panicked, and there is no stream.
C29_Witness ==
    /\ start_error
    /\ node_panic
    /\ whisper_thread = "Second"
    /\ stream = "None" /\ sender = "None"
    /\ callbacks = 0

====
